---- MODULE Spec2Model ----
(***************************************************************************)
(* Model of the rebalancing core of goalpost                               *)
(* (src/app/backend/agents/rebalance_agent.py).                            *)
(*                                                                         *)
(* calculate_rebalance is modelled as a state machine over one task        *)
(* snapshot: Begin groups the tasks by week, PushWeek/PushTask are the     *)
(* iterations of the two nested loops of phase 1, PullStart/PullWeek/      *)
(* PullTask those of phase 2, and Assemble builds the overload report, the *)
(* message and the recommendations.                                        *)
(*                                                                         *)
(* apply_rebalance is modelled over a tasks table: ApplySelect is an       *)
(* iteration of its loop over the change records up to its SELECT,         *)
(* ApplyUpdate the UPDATE that follows as a statement of its own, and      *)
(* ApplyReturn the return.  SpecApply runs it on arbitrary lists of change *)
(* records, SpecFlow runs calculate and apply against the tasks and goals  *)
(* tables while the task and goal routers serve requests: a request sends  *)
(* its statements one by one (the endpoint's action is its first           *)
(* statement, NextStatement each later one), so statements of other        *)
(* requests come in between.  SpecHours runs calculate over every kind of  *)
(* target_count.                                                           *)
(* SpecOrder runs calculate on one task more than MaxTasks, SpecFair runs  *)
(* it under weak fairness of its next statement, and SpecRace interleaves  *)
(* the SELECT and UPDATE statements of concurrent apply_rebalance calls.   *)
(*                                                                         *)
(* Dates are day ordinals: day 0 is Monday 2024-12-16, so the modelled     *)
(* weeks straddle the 2024/2025 year boundary.  A year_week label (the     *)
(* string "%Y-%W") is the pair <<year, week>>; the string order of the     *)
(* labels is the lexicographic order of the pairs.  An optional value      *)
(* (target_count, goal_deadline) is <<>> for None and <<v>> for a value.   *)
(* An ISO date string is the triple <<year, month, day>>.                  *)
(***************************************************************************)
EXTENDS Integers, Sequences, FiniteSets, TLC

\* ------------------------------------------------------------------------
\* Bounds and input domains
\* ------------------------------------------------------------------------

\* Largest number of rows in the fetched task snapshot.
MaxTasks == 2

\* Mondays on which a stored task may be scheduled (2024-12-16 .. 2025-01-06).
WeekStarts == {0, 7, 14, 21}

\* Values of "today": Thursday 2024-12-26 and Monday 2024-12-30.
Todays == {10, 14}

\* Hour budgets of the request (current_week_hours >= 0, future_week_hours > 0).
CurrentWeekHoursValues == {0, 4}

FutureWeekHoursValues == {2, 4}

\* Stored target_count values: None and 3.
TargetCounts == {<<>>, <<3>>}

\* Task statuses that get_user_tasks lets through.
Statuses == {"NEW", "IN_PROGRESS", "BLOCKED"}

Priorities == {1, 5}

\* Goal end dates: None and Wednesday 2025-01-01.
GoalDeadlines == {<<>>, <<16>>}

\* The number of characters of a title a change carries (task["title"][:60]).
TitleLimit == 60

\* Task titles, a string being the sequence of its characters: "T" and a
\* title of TitleLimit + 1 characters.
ShortTitle == <<"T">>

LongTitle == [k \in 1..(TitleLimit + 1) |-> "x"]

Titles == {ShortTitle, LongTitle}

\* The title of the i-th fetched task in the snapshots of calculate_rebalance.
TitleOf(i) == IF i % 2 = 1 THEN ShortTitle ELSE LongTitle

\* ------------------------------------------------------------------------
\* Calendar
\* ------------------------------------------------------------------------

\* Day 0 of the model: Monday 2024-12-16, day 350 (0-based) of 2024.
Epoch == [year |-> 2024, yday |-> 350]

DaysInYear(y) ==
    IF y % 4 = 0 /\ (y % 100 # 0 \/ y % 400 = 0) THEN 366 ELSE 365

RECURSIVE NormYearDay(_, _)
NormYearDay(y, n) ==
    IF n >= DaysInYear(y) THEN NormYearDay(y + 1, n - DaysInYear(y))
    ELSE [year |-> y, yday |-> n]

\* Year and 0-based day of the year of day ordinal d.
YearDay(d) == NormYearDay(Epoch.year, Epoch.yday + d)

\* date.weekday(): Monday = 0.
Weekday(d) == d % 7

\* date.strftime("%Y-%W"): the year and the week of the year, weeks starting
\* on Monday, days before the first Monday in week 0.
StrfYW(d) ==
    LET yd == YearDay(d)
    IN  <<yd.year, (yd.yday + 7 - Weekday(d)) \div 7>>

\* String order of two "%Y-%W" labels.
LabelLess(a, b) == a[1] < b[1] \/ (a[1] = b[1] /\ a[2] < b[2])

\* get_current_week_start with the clock reading t.
get_current_week_start(t) == t - Weekday(t)

\* An ISO date string "YYYY-MM-DD" is the triple <<year, month, day>>.
DaysInMonth(y, m) ==
    IF m = 2 THEN (IF DaysInYear(y) = 366 THEN 29 ELSE 28)
    ELSE IF m \in {4, 6, 9, 11} THEN 30 ELSE 31

RECURSIVE MonthDay(_, _, _)
MonthDay(y, m, n) ==
    IF n >= DaysInMonth(y, m) THEN MonthDay(y, m + 1, n - DaysInMonth(y, m))
    ELSE <<y, m, n + 1>>

\* date.isoformat()
isoformat(d) == LET yd == YearDay(d) IN MonthDay(yd.year, 1, yd.yday)

RECURSIVE DaysBeforeMonth(_, _)
DaysBeforeMonth(y, m) ==
    IF m = 1 THEN 0 ELSE DaysBeforeMonth(y, m - 1) + DaysInMonth(y, m - 1)

\* Days from 1 January of the epoch's year to 1 January of year y.
RECURSIVE DaysBeforeYear(_)
DaysBeforeYear(y) ==
    IF y <= Epoch.year THEN 0 ELSE DaysBeforeYear(y - 1) + DaysInYear(y - 1)

\* Whether date.fromisoformat accepts the string (years from the epoch's on).
IsIsoDate(s) ==
    /\ s[1] >= Epoch.year
    /\ s[2] \in 1..12
    /\ s[3] \in 1..DaysInMonth(s[1], s[2])

\* str(e) of the ValueError date.fromisoformat raises.
IsoError(s) ==
    IF s[2] \in 1..12 THEN "day is out of range for month"
    ELSE "month must be in 1..12"

\* date.fromisoformat(s) of an accepted string, as a day ordinal.
fromisoformat(s) ==
    DaysBeforeYear(s[1]) + DaysBeforeMonth(s[1], s[2]) + (s[3] - 1) - Epoch.yday

\* ------------------------------------------------------------------------
\* Sequence helpers
\* ------------------------------------------------------------------------

\* sorted() of a set of labels, ascending in string order.
RECURSIVE SortLabels(_)
SortLabels(S) ==
    IF S = {} THEN <<>>
    ELSE LET m == CHOOSE x \in S : \A y \in S \ {x} : LabelLess(x, y)
         IN  <<m>> \o SortLabels(S \ {m})

RECURSIVE InsertByKey(_, _, _)
InsertByKey(t, r, sign) ==
    IF r = <<>> THEN <<t>>
    ELSE IF sign * t.priority <= sign * Head(r).priority THEN <<t>> \o r
    ELSE <<Head(r)>> \o InsertByKey(t, Tail(r), sign)

\* sorted(s, key = sign * priority): a stable sort.
RECURSIVE StableSort(_, _)
StableSort(s, sign) ==
    IF s = <<>> THEN <<>>
    ELSE InsertByKey(Head(s), StableSort(Tail(s), sign), sign)

\* ------------------------------------------------------------------------
\* State
\* ------------------------------------------------------------------------

VARIABLES
    tasks,                \* the rows get_user_tasks returned
    goal_deadline,        \* g.end_date of the goal the fetched tasks belong to
    today,                \* date.today()
    current_week_hours,
    future_week_hours,
    pc,                   \* position in calculate_rebalance
    sorted_weeks,
    week_info,
    week_load,
    changes,
    overdue_count,
    pulled_forward_count,
    widx,                 \* index of the push loop in sorted_weeks
    movable,              \* movable_tasks still to visit in the current week
    excess,
    pull_branch,          \* which arm of phase 2 runs
    spare_capacity,
    future_weeks,
    fidx,                 \* index of the pull loop in future_weeks
    pullable,             \* pullable_tasks still to visit
    overloaded_weeks,
    message,
    recommendations,
    db,                   \* the tasks table: task_id -> row
    user_id,              \* the user the request is made for
    request,              \* the changes list passed to apply_rebalance
    aidx,                 \* index of apply_rebalance's loop in request
    applied,
    errors,
    apply_result,         \* the dict apply_rebalance returned
    calls,                \* concurrent apply_rebalance calls: call -> its locals
    served,               \* number of router requests received so far
    goals,                \* the goals table: goal_id -> row
    pending               \* router requests in flight: their statements still to send

vars == <<tasks, goal_deadline, today, current_week_hours, future_week_hours, pc,
          sorted_weeks, week_info, week_load, changes, overdue_count,
          pulled_forward_count, widx, movable, excess, pull_branch,
          spare_capacity, future_weeks, fidx, pullable, overloaded_weeks,
          message, recommendations, db, user_id, request, aidx, applied,
          errors, apply_result, calls, served, goals, pending>>

router_vars == <<served, goals, pending>>

apply_vars == <<user_id, request, aidx, applied, errors, apply_result, calls>>

inputs == <<tasks, goal_deadline, today, current_week_hours, future_week_hours>>

current_week_start == get_current_week_start(today)

current_year_week == StrfYW(current_week_start)

\* ------------------------------------------------------------------------
\* The task snapshot
\* ------------------------------------------------------------------------

TaskAttrs ==
    [week_start : WeekStarts, target_count : TargetCounts,
     status : Statuses, priority : Priorities]

\* ORDER BY t.week_start, t.priority DESC
FetchOrdered(s) ==
    \A i \in 1..(Len(s) - 1) :
        \/ s[i].week_start < s[i + 1].week_start
        \/ /\ s[i].week_start = s[i + 1].week_start
           /\ s[i].priority >= s[i + 1].priority

\* A row of get_user_tasks: the stored columns of the i-th task joined with its
\* goal's end date.  week_end and year_week are the ones every writer of the
\* tasks table derives from week_start.
TaskRow(a, i, deadline) ==
    [task_id |-> i,
     title |-> TitleOf(i),
     week_start |-> a.week_start,
     week_end |-> a.week_start + 6,
     year_week |-> StrfYW(a.week_start),
     target_count |-> a.target_count,
     status |-> a.status,
     priority |-> a.priority,
     goal_deadline |-> deadline]

\* The snapshot with the stored columns q[1], q[2], ... in fetch order.
SnapshotOf(q, deadline) == [i \in DOMAIN q |-> TaskRow(q[i], i, deadline)]

\* tasks_by_week[w]
TasksByWeek(w) == SelectSeq(tasks, LAMBDA t : t.year_week = w)

\* ------------------------------------------------------------------------
\* Load and capacity
\* ------------------------------------------------------------------------

\* get_hours without the cap of 8 hours.
get_hours_Uncapped(task) ==
    LET tc == task.target_count
    IN  IF tc = <<>> THEN 1
        ELSE IF tc[1] <= 0 \/ tc[1] > 20 THEN 1
        ELSE tc[1]

get_hours(task) ==
    LET tc == task.target_count
    IN  IF tc = <<>> THEN 1
        ELSE IF tc[1] <= 0 \/ tc[1] > 20 THEN 1
        ELSE IF tc[1] < 8 THEN tc[1] ELSE 8

RECURSIVE HoursOf(_)
HoursOf(s) == IF s = <<>> THEN 0 ELSE get_hours(Head(s)) + HoursOf(Tail(s))

\* week_info.get(w, {}).get("type", "future")
TypeOf(info, w) == IF w \in DOMAIN info THEN info[w].type ELSE "future"

\* get_capacity with the current week's own budget forgotten.
get_capacity_NoCurrent(info, w) ==
    IF TypeOf(info, w) = "overdue" THEN 0 ELSE future_week_hours

\* get_capacity with every budget forgotten.
get_capacity_Zero(info, w) == 0

\* get_capacity, reading the week_info of the moment.
get_capacity(info, w) ==
    IF TypeOf(info, w) = "overdue" THEN 0
    ELSE IF TypeOf(info, w) = "current" THEN current_week_hours
    ELSE future_week_hours

\* week_load.get(w, 0)
LoadOf(load, w) == IF w \in DOMAIN load THEN load[w] ELSE 0

\* d[k] = v on a dict.
DictSet(d, k, v) == [x \in DOMAIN d \cup {k} |-> IF x = k THEN v ELSE d[x]]

\* ------------------------------------------------------------------------
\* Initial state: a request has arrived, nothing is computed yet
\* ------------------------------------------------------------------------

Init ==
    /\ goal_deadline \in GoalDeadlines
    /\ \E n \in 0..MaxTasks : \E q \in [1..n -> TaskAttrs] :
          /\ FetchOrdered(q)
          /\ tasks = SnapshotOf(q, goal_deadline)
    /\ today \in Todays
    /\ current_week_hours \in CurrentWeekHoursValues
    /\ future_week_hours \in FutureWeekHoursValues
    /\ pc = "start"
    /\ sorted_weeks = <<>>
    /\ week_info = <<>>
    /\ week_load = <<>>
    /\ changes = <<>>
    /\ overdue_count = 0
    /\ pulled_forward_count = 0
    /\ widx = 1
    /\ movable = <<>>
    /\ excess = 0
    /\ pull_branch = "none"
    /\ spare_capacity = 0
    /\ future_weeks = <<>>
    /\ fidx = 1
    /\ pullable = <<>>
    /\ overloaded_weeks = <<>>
    /\ message = <<>>
    /\ recommendations = <<>>
    /\ db = <<>>
    /\ user_id = "u1"
    /\ request = <<>>
    /\ aidx = 1
    /\ applied = <<>>
    /\ errors = <<>>
    /\ apply_result = <<>>
    /\ calls = <<>>
    /\ served = 0
    /\ goals = <<>>
    /\ pending = {}

\* ------------------------------------------------------------------------
\* calculate_rebalance: grouping (source lines 82-167)
\* ------------------------------------------------------------------------

\* The week type computed when a label is first seen.
WeekType(week_start_date, year_week) ==
    IF week_start_date < current_week_start THEN "overdue"
    ELSE IF year_week = current_year_week THEN "current"
    ELSE "future"

\* The first fetched task carrying label w: it fills week_info[w].
FirstTaskOf(w) == Head(TasksByWeek(w))

InitialWeekInfo ==
    [w \in {tasks[i].year_week : i \in DOMAIN tasks} |->
        [week_start |-> FirstTaskOf(w).week_start,
         week_end |-> FirstTaskOf(w).week_end,
         type |-> WeekType(FirstTaskOf(w).week_start, w)]]

InitialWeekLoad ==
    [w \in {tasks[i].year_week : i \in DOMAIN tasks} |-> HoursOf(TasksByWeek(w))]

Begin ==
    /\ pc = "start"
    /\ IF tasks = <<>>
       THEN /\ message' = [fixed |-> "No pending tasks to rebalance", parts |-> <<>>]
            /\ pc' = "done"
            /\ UNCHANGED <<sorted_weeks, week_info, week_load>>
       ELSE /\ week_info' = InitialWeekInfo
            /\ sorted_weeks' = SortLabels(DOMAIN InitialWeekInfo)
            /\ week_load' = InitialWeekLoad
            /\ pc' = "push"
            /\ UNCHANGED message
    /\ UNCHANGED <<inputs, router_vars, db, apply_vars,
                   changes, overdue_count, pulled_forward_count, widx,
                   movable, excess, pull_branch, spare_capacity, future_weeks,
                   fidx, pullable, overloaded_weeks, recommendations>>

\* ------------------------------------------------------------------------
\* Phase 1: push (source lines 172-282)
\* ------------------------------------------------------------------------

\* movable_tasks without the IN_PROGRESS filter.
MovableTasks_Unfiltered(w) == StableSort(TasksByWeek(w), -1)

\* movable_tasks sorted the other way round, most urgent first.
MovableTasks_MostUrgentFirst(w) ==
    StableSort(SelectSeq(TasksByWeek(w), LAMBDA t : t.status # "IN_PROGRESS"), 1)

\* movable_tasks of a week: everything but IN_PROGRESS, lowest urgency first.
MovableTasks(w) ==
    StableSort(SelectSeq(TasksByWeek(w), LAMBDA t : t.status # "IN_PROGRESS"), -1)

\* The week at position i of "for week in sorted_weeks" has work for the
\* inner loop: it is over its capacity and has a movable task.
HasPushWork(i) ==
    /\ week_load[sorted_weeks[i]] > get_capacity(week_info, sorted_weeks[i])
    /\ MovableTasks(sorted_weeks[i]) # <<>>

\* The first position from i on whose week has work for the inner loop, or
\* Len(sorted_weeks) + 1: the weeks in between take "continue" or run an
\* empty inner loop.
RECURSIVE NextPushIndex(_)
NextPushIndex(i) ==
    IF i > Len(sorted_weeks) \/ HasPushWork(i) THEN i ELSE NextPushIndex(i + 1)

\* "for week in sorted_weeks" up to the next inner loop.  The list grows while
\* it is iterated, so appended weeks are visited as well.
PushWeek ==
    /\ pc = "push"
    /\ widx' = NextPushIndex(widx)
    /\ IF NextPushIndex(widx) > Len(sorted_weeks)
       THEN /\ pc' = "pull"
            /\ UNCHANGED <<movable, excess>>
       ELSE LET week == sorted_weeks[NextPushIndex(widx)]
            IN  /\ excess' = week_load[week] - get_capacity(week_info, week)
                /\ movable' = MovableTasks(week)
                /\ pc' = "pushtask"
    /\ UNCHANGED <<inputs, router_vars, db, apply_vars,
                   sorted_weeks, week_info, week_load, changes,
                   overdue_count, pulled_forward_count, pull_branch,
                   spare_capacity, future_weeks, fidx, pullable,
                   overloaded_weeks, message, recommendations>>

\* sorted_weeks.index(week)
RECURSIVE IndexOf(_, _)
IndexOf(s, x) == IF Head(s) = x THEN 1 ELSE 1 + IndexOf(Tail(s), x)

\* The weeks searched for a destination.
SearchWeeks(week, week_type) ==
    IF week_type = "overdue"
    THEN SelectSeq(sorted_weeks,
                   LAMBDA w : w \in DOMAIN week_info
                              /\ week_info[w].type \in {"current", "future"})
    ELSE SubSeq(sorted_weeks, IndexOf(sorted_weeks, week) + 1, Len(sorted_weeks))

\* The first candidate with room for task_hours: <<w>>, or <<>> when none has.
RECURSIVE FirstFit(_, _)
FirstFit(search_weeks, task_hours) ==
    IF search_weeks = <<>> THEN <<>>
    ELSE IF LoadOf(week_load, Head(search_weeks)) + task_hours
              <= get_capacity(week_info, Head(search_weeks))
    THEN <<Head(search_weeks)>>
    ELSE FirstFit(Tail(search_weeks), task_hours)

\* The synthesized week dated like the last known week, not a week after it.
NewWeekStart_LastWeek == week_info[sorted_weeks[Len(sorted_weeks)]].week_start

\* The week synthesized when no candidate has room: one week after the last
\* entry of sorted_weeks.
NewWeekStart == week_info[sorted_weeks[Len(sorted_weeks)]].week_start + 7

\* can_extend: the goal deadline does not forbid the new week.
CanExtend(task) ==
    \/ task.goal_deadline = <<>>
    \/ ~ (NewWeekStart > task.goal_deadline[1])

\* title[:60]
Truncate(title) ==
    SubSeq(title, 1, IF Len(title) < TitleLimit THEN Len(title) ELSE TitleLimit)

PushChange(task, week, week_type, target_week, target_week_start) ==
    [action |-> "move",
     task_id |-> task.task_id,
     task_title |-> Truncate(task.title),
     from_week |-> week,
     to_week |-> target_week,
     target_week_start |-> target_week_start,
     reason |-> IF week_type = "overdue"
                THEN [text |-> "Overdue task", priority |-> <<>>]
                ELSE [text |-> "Priority {p} - pushed forward",
                      priority |-> <<task.priority>>],
     is_overdue |-> (week_type = "overdue"),
     direction |-> "push"]

\* The push bookkeeping without the decrement of the source week.
PushLoad_KeepSource(load, week, target_week, task_hours) ==
    DictSet(load, target_week, LoadOf(load, target_week) + task_hours)

\* The bookkeeping after a recorded push of task from week to target_week.
PushLoad(load, week, target_week, task_hours) ==
    LET l1 == [load EXCEPT ![week] = @ - task_hours]
    IN  DictSet(l1, target_week, LoadOf(l1, target_week) + task_hours)

\* One iteration of "for task in movable_tasks".
PushTask ==
    /\ pc = "pushtask"
    /\ LET week == sorted_weeks[widx]
           week_type == week_info[week].type
           task == Head(movable)
           task_hours == get_hours(task)
           fit == FirstFit(SearchWeeks(week, week_type), task_hours)
           new_year_week == StrfYW(NewWeekStart)
           extend == fit = <<>> /\ CanExtend(task)
           moved == fit # <<>> \/ extend
           target_week == IF fit # <<>> THEN fit[1] ELSE new_year_week
           target_week_start ==
               IF fit # <<>> THEN week_info[fit[1]].week_start ELSE NewWeekStart
           info1 == IF extend
                    THEN DictSet(week_info, new_year_week,
                                 [week_start |-> NewWeekStart,
                                  week_end |-> NewWeekStart + 6,
                                  type |-> "future"])
                    ELSE week_info
           load1 == IF extend THEN DictSet(week_load, new_year_week, 0)
                    ELSE week_load
       IN  IF week_type # "overdue" /\ excess <= 0
           THEN \* break
                /\ movable' = <<>>
                /\ widx' = widx + 1
                /\ pc' = "push"
                /\ UNCHANGED <<sorted_weeks, week_info, week_load, changes,
                               overdue_count, excess>>
           ELSE /\ sorted_weeks' = IF extend THEN Append(sorted_weeks, new_year_week)
                                   ELSE sorted_weeks
                /\ week_info' = info1
                /\ IF moved
                   THEN /\ changes' = Append(changes,
                               PushChange(task, week, week_type, target_week,
                                          target_week_start))
                        /\ overdue_count' = IF week_type = "overdue"
                                            THEN overdue_count + 1
                                            ELSE overdue_count
                        /\ excess' = excess - task_hours
                        /\ week_load' = PushLoad(load1, week, target_week, task_hours)
                   ELSE /\ week_load' = load1
                        /\ UNCHANGED <<changes, overdue_count, excess>>
                /\ movable' = Tail(movable)
                /\ IF Tail(movable) = <<>>
                   THEN /\ widx' = widx + 1
                        /\ pc' = "push"
                   ELSE UNCHANGED <<widx, pc>>
    /\ UNCHANGED <<inputs, router_vars, db, apply_vars,
                   pulled_forward_count, pull_branch, spare_capacity,
                   future_weeks, fidx, pullable, overloaded_weeks, message,
                   recommendations>>

\* ------------------------------------------------------------------------
\* Phase 2: pull (source lines 287-393)
\* ------------------------------------------------------------------------

\* future_weeks cut down to its first entry.
FutureWeeks_FirstOnly ==
    LET f == SelectSeq(sorted_weeks,
                       LAMBDA w : w \in DOMAIN week_info
                                  /\ week_info[w].type = "future")
    IN  IF f = <<>> THEN <<>> ELSE <<Head(f)>>

\* [w for w in sorted_weeks if week_info.get(w, {}).get("type") == "future"]
FutureWeeks ==
    SelectSeq(sorted_weeks,
              LAMBDA w : w \in DOMAIN week_info /\ week_info[w].type = "future")

\* The head of phase 2: which arm runs and how much room the current week has.
PullStart ==
    /\ pc = "pull"
    /\ IF current_year_week \in DOMAIN week_info
       THEN /\ pull_branch' = "known"
            /\ spare_capacity' = current_week_hours - LoadOf(week_load, current_year_week)
            /\ IF current_week_hours - LoadOf(week_load, current_year_week) > 0
               THEN /\ future_weeks' = FutureWeeks
                    /\ pc' = "pullweek"
               ELSE /\ pc' = "assemble"
                    /\ UNCHANGED future_weeks
       ELSE /\ pull_branch' = "absent"
            /\ IF current_week_hours > 0
               THEN /\ spare_capacity' = current_week_hours
                    /\ future_weeks' = FutureWeeks
                    /\ pc' = "pullweek"
               ELSE /\ pc' = "assemble"
                    /\ UNCHANGED <<spare_capacity, future_weeks>>
    /\ UNCHANGED <<inputs, router_vars, db, apply_vars,
                   sorted_weeks, week_info, week_load, changes,
                   overdue_count, pulled_forward_count, widx, movable, excess,
                   fidx, pullable, overloaded_weeks, message, recommendations>>

\* pullable_tasks filtered like movable_tasks: everything but IN_PROGRESS.
PullableTasks_NotInProgress(w) ==
    StableSort(SelectSeq(TasksByWeek(w), LAMBDA t : t.status # "IN_PROGRESS"), 1)

\* pullable_tasks of a future week: the NEW ones, highest urgency first.
PullableTasks(w) ==
    StableSort(SelectSeq(TasksByWeek(w), LAMBDA t : t.status = "NEW"), 1)

\* The first position from i on whose future week has a pullable task, or
\* Len(future_weeks) + 1: the weeks in between run an empty inner loop.
RECURSIVE NextPullIndex(_)
NextPullIndex(i) ==
    IF i > Len(future_weeks) \/ PullableTasks(future_weeks[i]) # <<>> THEN i
    ELSE NextPullIndex(i + 1)

\* "for future_week in future_weeks" up to the next inner loop.
PullWeek ==
    /\ pc = "pullweek"
    /\ IF spare_capacity <= 0 \/ NextPullIndex(fidx) > Len(future_weeks)
       THEN /\ pc' = "assemble"
            /\ UNCHANGED <<fidx, pullable>>
       ELSE /\ fidx' = NextPullIndex(fidx)
            /\ pullable' = PullableTasks(future_weeks[NextPullIndex(fidx)])
            /\ pc' = "pulltask"
    /\ UNCHANGED <<inputs, router_vars, db, apply_vars,
                   sorted_weeks, week_info, week_load, changes,
                   overdue_count, pulled_forward_count, widx, movable, excess,
                   pull_branch, spare_capacity, future_weeks, overloaded_weeks,
                   message, recommendations>>

\* The pull phase without its "already moved in phase 1" check.
AlreadyMoved_Never(chs, task) == FALSE

\* any(c["task_id"] == task["task_id"] for c in changes)
AlreadyMoved(chs, task) == \E i \in DOMAIN chs : chs[i].task_id = task.task_id

PullChange(task, future_week, target_week_start) ==
    [action |-> "move",
     task_id |-> task.task_id,
     task_title |-> Truncate(task.title),
     from_week |-> future_week,
     to_week |-> current_year_week,
     target_week_start |-> target_week_start,
     reason |-> [text |-> "Priority {p} - pulled to current week",
                 priority |-> <<task.priority>>],
     is_overdue |-> FALSE,
     direction |-> "pull"]

\* The pull bookkeeping without the decrement of the future week.
PullLoad_KeepFuture(load, future_week, task_hours) ==
    DictSet(load, current_year_week, LoadOf(load, current_year_week) + task_hours)

\* The bookkeeping after a recorded pull of task from future_week.
PullLoad(load, future_week, task_hours) ==
    LET l1 == [load EXCEPT ![future_week] = @ - task_hours]
    IN  DictSet(l1, current_year_week, LoadOf(l1, current_year_week) + task_hours)

\* One iteration of "for task in pullable_tasks".
PullTask ==
    /\ pc = "pulltask"
    /\ LET future_week == future_weeks[fidx]
           task == Head(pullable)
           task_hours == get_hours(task)
           current_week_start_str ==
               IF pull_branch = "known" THEN week_info[current_year_week].week_start
               ELSE current_week_start
       IN  IF spare_capacity <= 0
           THEN \* break
                /\ pullable' = <<>>
                /\ fidx' = fidx + 1
                /\ pc' = "pullweek"
                /\ UNCHANGED <<week_info, week_load, changes,
                               pulled_forward_count, spare_capacity>>
           ELSE /\ IF ~ AlreadyMoved(changes, task) /\ task_hours <= spare_capacity
                   THEN /\ changes' = Append(changes,
                               PullChange(task, future_week, current_week_start_str))
                        /\ pulled_forward_count' = pulled_forward_count + 1
                        /\ spare_capacity' = spare_capacity - task_hours
                        /\ week_load' = PullLoad(week_load, future_week, task_hours)
                        /\ week_info' =
                               IF pull_branch = "absent"
                                  /\ current_year_week \notin DOMAIN week_info
                               THEN DictSet(week_info, current_year_week,
                                            [week_start |-> current_week_start,
                                             week_end |-> current_week_start + 6,
                                             type |-> "current"])
                               ELSE week_info
                   ELSE UNCHANGED <<week_info, week_load, changes,
                                    pulled_forward_count, spare_capacity>>
                /\ pullable' = Tail(pullable)
                /\ IF Tail(pullable) = <<>>
                   THEN /\ fidx' = fidx + 1
                        /\ pc' = "pullweek"
                   ELSE UNCHANGED <<fidx, pc>>
    /\ UNCHANGED <<inputs, router_vars, db, apply_vars,
                   sorted_weeks, overdue_count, widx, movable, excess,
                   pull_branch, future_weeks, overloaded_weeks, message,
                   recommendations>>

\* ------------------------------------------------------------------------
\* Overload report, message and recommendations (source lines 398-458)
\* ------------------------------------------------------------------------

OverloadEntry(w) ==
    [week |-> w,
     hours |-> LoadOf(week_load, w),
     capacity |-> get_capacity(week_info, w),
     excess |-> LoadOf(week_load, w) - get_capacity(week_info, w),
     task_count |-> Len(TasksByWeek(w))]

\* The overload report left empty.
OverloadedWeeks_None(ws) == <<>>

RECURSIVE OverloadedWeeks(_)
OverloadedWeeks(ws) ==
    IF ws = <<>> THEN <<>>
    ELSE IF TypeOf(week_info, Head(ws)) # "overdue"
            /\ LoadOf(week_load, Head(ws)) > get_capacity(week_info, Head(ws))
    THEN <<OverloadEntry(Head(ws))>> \o OverloadedWeeks(Tail(ws))
    ELSE OverloadedWeeks(Tail(ws))

\* len([c for c in changes if direction == "push" and not is_overdue])
PushedCount(chs) ==
    Cardinality({i \in DOMAIN chs : chs[i].direction = "push" /\ ~ chs[i].is_overdue})

\* The clauses joined with " | ": each a count and the text after it.
Messages(over) ==
    (IF overdue_count > 0
     THEN <<<<overdue_count, "overdue tasks pushed forward">>>> ELSE <<>>)
    \o (IF PushedCount(changes) > 0
        THEN <<<<PushedCount(changes), "tasks pushed to later weeks">>>> ELSE <<>>)
    \o (IF pulled_forward_count > 0
        THEN <<<<pulled_forward_count, "tasks pulled to this week">>>> ELSE <<>>)
    \o (IF Len(over) > 0
        THEN <<<<Len(over), "weeks still overloaded">>>> ELSE <<>>)

\* calculate_rebalance writing its proposals to the tasks table.
StoreAfterCalculate_Writes(store, chs) ==
    [i \in DOMAIN store |->
        IF \E k \in DOMAIN chs : chs[k].task_id = i
        THEN LET k == CHOOSE k \in DOMAIN chs : chs[k].task_id = i
             IN  [store[i] EXCEPT !.week_start = chs[k].target_week_start,
                                  !.week_end = chs[k].target_week_start + 6,
                                  !.year_week = chs[k].to_week]
        ELSE store[i]]

\* The tasks table when calculate_rebalance returns: the function issues one
\* SELECT (get_user_tasks) and no write, so the table is the one it found.
StoreAfterCalculate(store, chs) == store

Assemble ==
    /\ pc = "assemble"
    /\ LET over == OverloadedWeeks(sorted_weeks)
           messages == Messages(over)
       IN  /\ overloaded_weeks' = over
           /\ IF Len(changes) = 0 /\ Len(over) = 0
              THEN /\ message' = [fixed |-> "Your workload is already balanced!",
                                  parts |-> <<>>]
                   /\ recommendations' =
                          <<[text |-> "Great job managing your time!", hours |-> <<>>]>>
              ELSE IF Len(changes) > 0 /\ Len(over) = 0
              THEN /\ message' = IF messages # <<>>
                                 THEN [fixed |-> "", parts |-> messages]
                                 ELSE [fixed |-> "",
                                       parts |-> <<<<Len(changes), "Moving {n} tasks">>>>]
                   /\ recommendations' =
                          <<[text |-> "Apply changes to optimize your schedule",
                             hours |-> <<>>]>>
              ELSE /\ message' = IF messages # <<>>
                                 THEN [fixed |-> "", parts |-> messages]
                                 ELSE [fixed |-> "Rebalance calculated", parts |-> <<>>]
                   /\ recommendations' =
                          <<[text |-> "Some high-priority tasks can't be moved",
                             hours |-> <<>>],
                            [text |-> "Consider increasing weekly hours above {h}h",
                             hours |-> <<future_week_hours>>]>>
    /\ db' = StoreAfterCalculate(db, changes)
    /\ pc' = "done"
    /\ UNCHANGED <<inputs, router_vars, apply_vars,
                   sorted_weeks, week_info, week_load, changes,
                   overdue_count, pulled_forward_count, widx, movable, excess,
                   pull_branch, spare_capacity, future_weeks, fidx, pullable>>

\* ------------------------------------------------------------------------
\* Specification
\* ------------------------------------------------------------------------

Next ==
    \/ Begin
    \/ PushWeek
    \/ PushTask
    \/ PullStart
    \/ PullWeek
    \/ PullTask
    \/ Assemble

Spec == Init /\ [][Next]_vars

\* ------------------------------------------------------------------------
\* The tasks table
\* ------------------------------------------------------------------------

\* A row of tasks, scheduled in the week starting on week_start.  The
\* task_id of a row is its key in the table.
StoreRow(user, goal_id, title, week_start, target_count, status, priority) ==
    [user_id |-> user,
     goal_id |-> goal_id,
     title |-> title,
     week_start |-> week_start,
     week_end |-> week_start + 6,
     year_week |-> StrfYW(week_start),
     target_count |-> target_count,
     status |-> status,
     priority |-> priority]

\* A row of goals.  The goal_id of a row is its key in the table.
GoalRow(user, status, end_date) ==
    [user_id |-> user, status |-> status, end_date |-> end_date]

\* SELECT task_id FROM tasks WHERE task_id = :task_id, whoever owns the task.
SelectTask_AnyOwner(store, task_id, user) == task_id \in DOMAIN store

\* SELECT task_id FROM tasks WHERE task_id = :task_id AND user_id = :user_id
\* returned a row.
SelectTask(store, task_id, user) ==
    /\ task_id \in DOMAIN store
    /\ store[task_id].user_id = user

\* The UPDATE without its year_week column.
UpdateTaskWeek_KeepLabel(store, task_id, week_start, week_end, year_week) ==
    IF task_id \in DOMAIN store
    THEN [store EXCEPT ![task_id].week_start = fromisoformat(week_start),
                       ![task_id].week_end = fromisoformat(week_end)]
    ELSE store

\* UPDATE tasks SET week_start, week_end, year_week WHERE task_id = :task_id.
\* The two dates travel as ISO strings and are stored in DATE columns.
UpdateTaskWeek(store, task_id, week_start, week_end, year_week) ==
    IF task_id \in DOMAIN store
    THEN [store EXCEPT ![task_id].week_start = fromisoformat(week_start),
                       ![task_id].week_end = fromisoformat(week_end),
                       ![task_id].year_week = year_week]
    ELSE store

\* ------------------------------------------------------------------------
\* apply_rebalance (source lines 461-533)
\* ------------------------------------------------------------------------

\* change.get(k): <<>> when the key is absent.
DictGet(change, k) == IF k \in DOMAIN change THEN <<change[k]>> ELSE <<>>

\* change.get(k, default)
DictGetOr(change, k, default) == IF k \in DOMAIN change THEN change[k] ELSE default

ErrorEntry(task_id, text) == [task_id |-> task_id, error |-> text]

AppliedEntry(change, year_week) ==
    [task_id |-> change.task_id,
     task_title |-> DictGetOr(change, "task_title", <<>>),
     from_week |-> change.from_week,
     to_week |-> year_week,
     direction |-> DictGetOr(change, "direction", "push")]

\* The SELECT and the UPDATE of an iteration are two statements, each sent
\* on a connection of its own: select_ok and update_ok tell whether the
\* statement gets through to the database (db.execute raises "Database
\* error" otherwise).

\* The iteration of the loop up to and including the SELECT.  update tells
\* whether the iteration goes on to the UPDATE.
SelectStep(store, user, change, select_ok) ==
    LET stop == [errors |-> <<>>, raised |-> FALSE, update |-> FALSE]
        failed(text) == [stop EXCEPT !.errors = <<ErrorEntry(change.task_id, text)>>]
        target == DictGet(change, "target_week_start")
    IN  IF DictGet(change, "action") # <<"move">> THEN stop
        ELSE IF "task_id" \notin DOMAIN change THEN [stop EXCEPT !.raised = TRUE]
        ELSE IF target = <<>> THEN failed("No target week start")
        ELSE IF ~ IsIsoDate(target[1]) THEN failed(IsoError(target[1]))
        ELSE IF ~ select_ok THEN failed("Database error")
        ELSE IF ~ SelectTask(store, change.task_id, user)
        THEN failed("Task not found")
        ELSE [stop EXCEPT !.update = TRUE]

\* The rest of the iteration: the UPDATE and the entry appended to applied.
UpdateStep(store, change, update_ok) ==
    LET week_start == fromisoformat(change.target_week_start)
        week_end == week_start + 6
        year_week == StrfYW(week_start)
        written == UpdateTaskWeek(store, change.task_id, isoformat(week_start),
                                  isoformat(week_end), year_week)
    IN  IF ~ update_ok
        THEN [db |-> store, applied |-> <<>>,
              errors |-> <<ErrorEntry(change.task_id, "Database error")>>]
        ELSE IF "from_week" \notin DOMAIN change
        THEN [db |-> written, applied |-> <<>>,
              errors |-> <<ErrorEntry(change.task_id, "'from_week'")>>]
        ELSE [db |-> written, applied |-> <<AppliedEntry(change, year_week)>>,
              errors |-> <<>>]

\* The loop giving up on the remaining changes after a failure.
AfterFailure_Abort(i, n) == n + 1

\* The index the loop goes on with after change i of n failed (continue).
AfterFailure(i, n) == i + 1

\* An iteration of the loop over changes up to its SELECT.
ApplySelect ==
    /\ pc = "apply"
    /\ aidx <= Len(request)
    /\ \E select_ok \in BOOLEAN :
         LET out == SelectStep(db, user_id, request[aidx], select_ok)
         IN  /\ errors' = errors \o out.errors
             /\ pc' = IF out.raised THEN "raised"
                      ELSE IF out.update THEN "update" ELSE "apply"
             /\ aidx' = IF out.raised \/ out.update THEN aidx
                        ELSE IF out.errors # <<>>
                        THEN AfterFailure(aidx, Len(request))
                        ELSE aidx + 1
    /\ UNCHANGED <<inputs, router_vars, db, user_id, request, applied, apply_result,
                   calls, sorted_weeks,
                   week_info, week_load, changes, overdue_count,
                   pulled_forward_count, widx, movable, excess, pull_branch,
                   spare_capacity, future_weeks, fidx, pullable,
                   overloaded_weeks, message, recommendations>>

\* The UPDATE of the iteration and what follows it.
ApplyUpdate ==
    /\ pc = "update"
    /\ \E update_ok \in BOOLEAN :
         LET out == UpdateStep(db, request[aidx], update_ok)
         IN  /\ db' = out.db
             /\ applied' = applied \o out.applied
             /\ errors' = errors \o out.errors
             /\ aidx' = IF out.errors # <<>>
                        THEN AfterFailure(aidx, Len(request))
                        ELSE aidx + 1
    /\ pc' = "apply"
    /\ UNCHANGED <<inputs, router_vars, user_id, request, apply_result, calls,
                   sorted_weeks,
                   week_info, week_load, changes, overdue_count,
                   pulled_forward_count, widx, movable, excess, pull_branch,
                   spare_capacity, future_weeks, fidx, pullable,
                   overloaded_weeks, message, recommendations>>

ApplyReturn ==
    /\ pc = "apply"
    /\ aidx > Len(request)
    /\ apply_result' = [success |-> Len(errors) = 0,
                        applied |-> applied,
                        errors |-> errors,
                        total_applied |-> Len(applied),
                        total_errors |-> Len(errors)]
    /\ pc' = "returned"
    /\ UNCHANGED <<inputs, router_vars, db, user_id, request, aidx, applied, errors, calls,
                   sorted_weeks, week_info, week_load, changes, overdue_count,
                   pulled_forward_count, widx, movable, excess, pull_branch,
                   spare_capacity, future_weeks, fidx, pullable,
                   overloaded_weeks, message, recommendations>>

\* ------------------------------------------------------------------------
\* Specification of apply_rebalance alone: any list of change records
\* against a fixed table
\* ------------------------------------------------------------------------

\* Largest number of records in the changes list.
MaxChanges == 2

\* Task 1 belongs to the requesting user, task 2 to another user; both are
\* scheduled in the week of Monday 2024-12-23.  No task 3 exists.
InitialStore ==
    <<StoreRow("u1", 1, ShortTitle, 7, <<3>>, "NEW", 1),
      StoreRow("u2", 2, LongTitle, 7, <<3>>, "NEW", 1)>>

\* The goals of the two tasks.
InitialGoals ==
    <<GoalRow("u1", "ACTIVE", <<>>), GoalRow("u2", "ACTIVE", <<>>)>>

\* The records with key k absent or holding a value of V.
Field(k, V) == {<<>>} \cup {k :> v : v \in V}

\* Change records: target_week_start is absent, Monday 2025-01-06, Wednesday
\* 2025-01-01 or the non-date "2025-02-30".
ChangeRecords ==
    {a @@ t @@ w @@ f :
        a \in {"action" :> v : v \in {"move", "keep"}},
        t \in Field("task_id", {1, 2, 3}),
        w \in Field("target_week_start", {<<2025, 1, 6>>, <<2025, 1, 1>>, <<2025, 2, 30>>}),
        f \in Field("from_week", {<<2024, 52>>})}

Requests == UNION {[1..n -> ChangeRecords] : n \in 0..MaxChanges}

InitApply ==
    /\ db = InitialStore
    /\ user_id = "u1"
    /\ request \in Requests
    /\ pc = "apply"
    /\ aidx = 1
    /\ applied = <<>>
    /\ errors = <<>>
    /\ apply_result = <<>>
    /\ calls = <<>>
    /\ served = 0
    /\ goals = InitialGoals
    /\ pending = {}
    /\ tasks = <<>>
    /\ goal_deadline = <<>>
    /\ today = 14
    /\ current_week_hours = 4
    /\ future_week_hours = 4
    /\ sorted_weeks = <<>>
    /\ week_info = <<>>
    /\ week_load = <<>>
    /\ changes = <<>>
    /\ overdue_count = 0
    /\ pulled_forward_count = 0
    /\ widx = 1
    /\ movable = <<>>
    /\ excess = 0
    /\ pull_branch = "none"
    /\ spare_capacity = 0
    /\ future_weeks = <<>>
    /\ fidx = 1
    /\ pullable = <<>>
    /\ overloaded_weeks = <<>>
    /\ message = <<>>
    /\ recommendations = <<>>

NextApply ==
    \/ ApplySelect
    \/ ApplyUpdate
    \/ ApplyReturn

SpecApply == InitApply /\ [][NextApply]_vars

\* ------------------------------------------------------------------------
\* Specification of the calculate / apply flow over a tasks table
\* ------------------------------------------------------------------------

\* Largest number of rows in the tasks table.
MaxRows == 2

ClosedStatuses == {"DONE", "CANCELLED"}

\* The rows of tasks JOIN goals that the WHERE clause of get_user_tasks lets
\* through.
VisibleTasks(store, goal_table, user) ==
    {i \in DOMAIN store :
        /\ store[i].goal_id \in DOMAIN goal_table
        /\ store[i].user_id = user
        /\ store[i].status \notin ClosedStatuses
        /\ goal_table[store[i].goal_id].status = "ACTIVE"}

\* The columns get_user_tasks selects of row i.
FetchedRow(store, goal_table, i) ==
    [task_id |-> i,
     title |-> store[i].title,
     week_start |-> store[i].week_start,
     week_end |-> store[i].week_end,
     year_week |-> store[i].year_week,
     target_count |-> store[i].target_count,
     status |-> store[i].status,
     priority |-> store[i].priority,
     goal_deadline |-> goal_table[store[i].goal_id].end_date]

\* LIMIT 300
FetchLimit == 300

\* Row a comes strictly before row b under ORDER BY t.week_start,
\* t.priority DESC.
SortsBefore(a, b) ==
    \/ a.week_start < b.week_start
    \/ a.week_start = b.week_start /\ a.priority > b.priority

\* The results get_user_tasks may return: the first FetchLimit visible rows
\* in any order that ORDER BY t.week_start, t.priority DESC allows.
get_user_tasks(store, goal_table, user) ==
    LET V == VisibleTasks(store, goal_table, user)
        n == IF Cardinality(V) < FetchLimit THEN Cardinality(V) ELSE FetchLimit
    IN  {[k \in 1..n |-> FetchedRow(store, goal_table, f[k])] :
            f \in {g \in [1..n -> V] :
                     /\ \A a, b \in 1..n : a # b => g[a] # g[b]
                     /\ FetchOrdered([k \in 1..n |-> store[g[k]]])
                     /\ \A v \in V :
                          (\A k \in 1..n : g[k] # v)
                              => \A k \in 1..n : ~ SortsBefore(store[v], store[g[k]])}}

\* calculate_rebalance is called (again): it reads the tasks of the user and
\* starts with fresh locals.
Fetch ==
    /\ pc \in {"fetch", "done"}
    /\ tasks' \in get_user_tasks(db, goals, user_id)
    /\ pc' = "start"
    /\ sorted_weeks' = <<>>
    /\ week_info' = <<>>
    /\ week_load' = <<>>
    /\ changes' = <<>>
    /\ overdue_count' = 0
    /\ pulled_forward_count' = 0
    /\ widx' = 1
    /\ movable' = <<>>
    /\ excess' = 0
    /\ pull_branch' = "none"
    /\ spare_capacity' = 0
    /\ future_weeks' = <<>>
    /\ fidx' = 1
    /\ pullable' = <<>>
    /\ overloaded_weeks' = <<>>
    /\ message' = <<>>
    /\ recommendations' = <<>>
    /\ UNCHANGED <<goal_deadline, today, current_week_hours, future_week_hours,
                   db, apply_vars, router_vars>>

\* Largest number of requests the routers receive in a behaviour.
MaxServed == 1

\* The users of the tables.
Users == {"u1", "u2"}

\* The values of TaskStatus.
TaskStatusValues ==
    {"NEW", "IN_PROGRESS", "DONE", "BLOCKED", "ROLLED_OVER", "CANCELLED"}

\* The values of GoalStatus.
GoalStatusValues == {"ACTIVE", "COMPLETED", "PAUSED", "ARCHIVED"}

\* The highest priority a TaskUpdate accepts (le=5).
MaxPriority == 5

\* The bodies of PATCH /tasks/{task_id}: each of status, priority and title
\* is absent (<<>>) or given.  The bodies drawn give one field, any
\* TaskStatus, the highest priority or the short title, or all three.
TaskUpdates ==
    LET none == [status |-> <<>>, priority |-> <<>>, title |-> <<>>]
    IN  {[none EXCEPT !.status = <<st>>] : st \in TaskStatusValues}
          \cup {[none EXCEPT !.priority = <<MaxPriority>>],
                [none EXCEPT !.title = <<ShortTitle>>],
                [status |-> <<"DONE">>, priority |-> <<MaxPriority>>,
                 title |-> <<ShortTitle>>]}

\* The columns a TaskUpdate writes: those of its fields that are given.
update_data(row, task_update) ==
    [row EXCEPT
        !.title = IF task_update.title = <<>> THEN @ ELSE task_update.title[1],
        !.status = IF task_update.status = <<>> THEN @ ELSE task_update.status[1],
        !.priority = IF task_update.priority = <<>> THEN @
                     ELSE task_update.priority[1]]

\* The table after db.update: the row task_id replaced, if it is there.
UpdateRow(store, task_id, row) ==
    IF task_id \in DOMAIN store THEN [store EXCEPT ![task_id] = row] ELSE store

\* The table after db.delete of the row task_id.
DeleteRow(store, task_id) ==
    [i \in DOMAIN store \ {task_id} |-> store[i]]

\* The table after DELETE FROM ... WHERE column = value.
DeleteWhere(store, column, value) ==
    [i \in {k \in DOMAIN store : store[k][column] # value} |-> store[i]]

\* The table after an INSERT of one row under a new key.
InsertRow(store, id, row) ==
    [i \in DOMAIN store \cup {id} |-> IF i = id THEN row ELSE store[i]]

\* The year_week label of a date.
get_year_week(d) == StrfYW(d)

\* The Monday and the Sunday of the week of a date.
get_week_bounds(d) == <<d - Weekday(d), d - Weekday(d) + 6>>

\* The dates a MoveTask request may name as new_week_start: Wednesday
\* 2025-01-01 and Monday 2025-01-13.
MoveDates == {16, 28}

\* A statement a request still has to send: the operation, the key it names
\* and the values it carries.
Statement(op, id, arg) == [op |-> op, id |-> id, arg |-> arg]

\* The tasks and goals tables after a statement reached the database.  An
\* UPDATE or DELETE whose WHERE clause matches no row changes nothing.
Execute(stmt, store, goal_table) ==
    LET same == [db |-> store, goals |-> goal_table]
    IN  CASE stmt.op = "update_task" ->
               [same EXCEPT !.db =
                   IF stmt.id \in DOMAIN store
                   THEN UpdateRow(store, stmt.id, update_data(store[stmt.id], stmt.arg))
                   ELSE store]
          [] stmt.op = "move_task" ->
               [same EXCEPT !.db =
                   UpdateTaskWeek(store, stmt.id, stmt.arg[1], stmt.arg[2], stmt.arg[3])]
          [] stmt.op = "complete_task" ->
               [same EXCEPT !.db =
                   IF stmt.id \in DOMAIN store
                   THEN UpdateRow(store, stmt.id, [store[stmt.id] EXCEPT !.status = "DONE"])
                   ELSE store]
          [] stmt.op = "delete_task" ->
               [same EXCEPT !.db = DeleteRow(store, stmt.id)]
          [] stmt.op = "update_goal" ->
               [same EXCEPT !.goals =
                   IF stmt.id \in DOMAIN goal_table
                   THEN [goal_table EXCEPT ![stmt.id].status = stmt.arg]
                   ELSE goal_table]
          [] stmt.op = "delete_tasks_of_goal" ->
               [same EXCEPT !.db = DeleteWhere(store, "goal_id", stmt.id)]
          [] stmt.op = "delete_goal" ->
               [same EXCEPT !.goals = DeleteRow(goal_table, stmt.id)]
          [] stmt.op = "delete_goals_of_user" ->
               [same EXCEPT !.goals = DeleteWhere(goal_table, "user_id", stmt.arg)]
          [] stmt.op = "insert_task" ->
               [same EXCEPT !.db = InsertRow(store, stmt.id, stmt.arg)]

\* A request has sent its first statement and still has to send stmts, one
\* connection and round trip each, with no transaction around them.
InFlight(stmts) ==
    IF stmts = <<>> THEN pending
    ELSE pending \cup {[n |-> served + 1, statements |-> stmts]}

\* SELECT goal_id FROM goals WHERE goal_id = :id AND user_id = :user_id
\* returned a row.
SelectGoal(goal_table, goal_id, user) ==
    /\ goal_id \in DOMAIN goal_table
    /\ goal_table[goal_id].user_id = user

\* A key no row of tasks or goals has had: the tables start with keys up to
\* MaxRows and every request takes at most one new key.
NewId == MaxRows + served + 1

\* PATCH /tasks/{task_id} by the owner of the task: any status (also NEW on
\* a closed task), priority or title.  A body with no field is refused
\* (400), a task of another user is not found (404).  The action is the
\* ownership SELECT; the UPDATE is sent next.
update_task ==
    /\ served < MaxServed
    /\ \E user \in Users, task_id \in DOMAIN db :
         /\ SelectTask(db, task_id, user)
         /\ \E task_update \in TaskUpdates :
              /\ \E f \in DOMAIN task_update : task_update[f] # <<>>
              /\ pending' = InFlight(<<Statement("update_task", task_id, task_update)>>)
    /\ served' = served + 1
    /\ UNCHANGED <<db, goals>>
    /\ UNCHANGED <<inputs, pc, apply_vars, sorted_weeks, week_info, week_load,
                   changes, overdue_count, pulled_forward_count, widx, movable,
                   excess, pull_branch, spare_capacity, future_weeks, fidx,
                   pullable, overloaded_weeks, message, recommendations>>

\* POST /tasks/{task_id}/move by the owner of the task: the task goes to the
\* week of new_week_start, whatever day of that week the date is.  The
\* action is the ownership SELECT; the UPDATE is sent next.
move_task ==
    /\ served < MaxServed
    /\ \E user \in Users, task_id \in DOMAIN db, new_week_start \in MoveDates :
         LET week_start == get_week_bounds(new_week_start)[1]
             week_end == get_week_bounds(new_week_start)[2]
         IN  /\ SelectTask(db, task_id, user)
             /\ pending' = InFlight(<<Statement("move_task", task_id,
                                       <<isoformat(week_start), isoformat(week_end),
                                         get_year_week(week_start)>>)>>)
    /\ served' = served + 1
    /\ UNCHANGED <<db, goals>>
    /\ UNCHANGED <<inputs, pc, apply_vars, sorted_weeks, week_info, week_load,
                   changes, overdue_count, pulled_forward_count, widx, movable,
                   excess, pull_branch, spare_capacity, future_weeks, fidx,
                   pullable, overloaded_weeks, message, recommendations>>

\* POST /tasks/{task_id}/complete by the owner of the task.  The action is
\* the SELECT of the row; with a target_count of NULL the handler raises
\* (target - old_completed) and sends nothing more, otherwise the UPDATE is
\* sent next.
complete_task ==
    /\ served < MaxServed
    /\ \E user \in Users, task_id \in DOMAIN db :
         /\ SelectTask(db, task_id, user)
         /\ pending' = InFlight(IF db[task_id].target_count = <<>> THEN <<>>
                                ELSE <<Statement("complete_task", task_id, <<>>)>>)
    /\ served' = served + 1
    /\ UNCHANGED <<db, goals>>
    /\ UNCHANGED <<inputs, pc, apply_vars, sorted_weeks, week_info, week_load,
                   changes, overdue_count, pulled_forward_count, widx, movable,
                   excess, pull_branch, spare_capacity, future_weeks, fidx,
                   pullable, overloaded_weeks, message, recommendations>>

\* DELETE /tasks/{task_id} by the owner of the task.  The action is the
\* ownership SELECT; the DELETE is sent next.
delete_task ==
    /\ served < MaxServed
    /\ \E user \in Users, task_id \in DOMAIN db :
         /\ SelectTask(db, task_id, user)
         /\ pending' = InFlight(<<Statement("delete_task", task_id, <<>>)>>)
    /\ served' = served + 1
    /\ UNCHANGED <<db, goals>>
    /\ UNCHANGED <<inputs, pc, apply_vars, sorted_weeks, week_info, week_load,
                   changes, overdue_count, pulled_forward_count, widx, movable,
                   excess, pull_branch, spare_capacity, future_weeks, fidx,
                   pullable, overloaded_weeks, message, recommendations>>

\* PATCH /goals/{goal_id} with a status, by the owner of the goal.  The
\* action is the ownership SELECT; the UPDATE is sent next.
update_goal ==
    /\ served < MaxServed
    /\ \E user \in Users, goal_id \in DOMAIN goals, status \in GoalStatusValues :
         /\ SelectGoal(goals, goal_id, user)
         /\ pending' = InFlight(<<Statement("update_goal", goal_id, status)>>)
    /\ served' = served + 1
    /\ UNCHANGED <<db, goals>>
    /\ UNCHANGED <<inputs, pc, apply_vars, sorted_weeks, week_info, week_load,
                   changes, overdue_count, pulled_forward_count, widx, movable,
                   excess, pull_branch, spare_capacity, future_weeks, fidx,
                   pullable, overloaded_weeks, message, recommendations>>

\* DELETE /goals/{goal_id} by the owner of the goal.  The action is the
\* ownership SELECT; the DELETE of the goal's tasks and the DELETE of the
\* goal are sent next.
delete_goal ==
    /\ served < MaxServed
    /\ \E user \in Users, goal_id \in DOMAIN goals :
         /\ SelectGoal(goals, goal_id, user)
         /\ pending' = InFlight(<<Statement("delete_tasks_of_goal", goal_id, <<>>),
                                  Statement("delete_goal", goal_id, <<>>)>>)
    /\ served' = served + 1
    /\ UNCHANGED <<db, goals>>
    /\ UNCHANGED <<inputs, pc, apply_vars, sorted_weeks, week_info, week_load,
                   changes, overdue_count, pulled_forward_count, widx, movable,
                   excess, pull_branch, spare_capacity, future_weeks, fidx,
                   pullable, overloaded_weeks, message, recommendations>>

\* DELETE /goals/all?confirm=true.  The action is the DELETE of the user's
\* tasks; the DELETE of the user's goals is sent next.
delete_all_goals ==
    /\ served < MaxServed
    /\ \E user \in Users :
         /\ db' = DeleteWhere(db, "user_id", user)
         /\ pending' = InFlight(<<Statement("delete_goals_of_user", 0, user)>>)
    /\ served' = served + 1
    /\ UNCHANGED goals
    /\ UNCHANGED <<inputs, pc, apply_vars, sorted_weeks, week_info, week_load,
                   changes, overdue_count, pulled_forward_count, widx, movable,
                   excess, pull_branch, spare_capacity, future_weeks, fidx,
                   pullable, overloaded_weeks, message, recommendations>>

\* The priority of a goal created without one.
DefaultPriority == 3

\* The hours of a planned task that names none.
DefaultHours == 3

\* The start dates of a GoalCreate request: Wednesday 2025-01-01.
StartDates == {16}

\* The tasks dissect_goal plans for a goal when the language model answers
\* with one task: the task is scheduled in the week that starts on
\* start_date, whatever day of the week that is.
distribute_tasks(user, goal_id, start_date) ==
    StoreRow(user, goal_id, LongTitle, start_date, <<DefaultHours>>, "NEW",
             DefaultPriority)

\* POST /goals: a goal of four weeks whose plan has one task.  The action is
\* the INSERT of the goal; the INSERT of its tasks is sent next.
create_goal ==
    /\ served < MaxServed
    /\ \E user \in Users, start_date \in StartDates :
         /\ goals' = InsertRow(goals, NewId,
                               GoalRow(user, "ACTIVE", <<start_date + 28>>))
         /\ pending' = InFlight(<<Statement("insert_task", NewId,
                                   distribute_tasks(user, NewId, start_date))>>)
    /\ served' = served + 1
    /\ UNCHANGED db
    /\ UNCHANGED <<inputs, pc, apply_vars, sorted_weeks, week_info, week_load,
                   changes, overdue_count, pulled_forward_count, widx, movable,
                   excess, pull_branch, spare_capacity, future_weeks, fidx,
                   pullable, overloaded_weeks, message, recommendations>>

\* The next statement of a request in flight reaches the database.
NextStatement ==
    /\ \E r \in pending :
         LET out == Execute(Head(r.statements), db, goals)
             rest == Tail(r.statements)
         IN  /\ db' = out.db
             /\ goals' = out.goals
             /\ pending' = (pending \ {r}) \cup
                   (IF rest = <<>> THEN {} ELSE {[r EXCEPT !.statements = rest]})
    /\ UNCHANGED served
    /\ UNCHANGED <<inputs, pc, apply_vars, sorted_weeks, week_info, week_load,
                   changes, overdue_count, pulled_forward_count, widx, movable,
                   excess, pull_branch, spare_capacity, future_weeks, fidx,
                   pullable, overloaded_weeks, message, recommendations>>

\* The changes of a plan as they leave calculate_rebalance: the target week
\* start is an ISO string.
PlanChanges(chs) ==
    [k \in DOMAIN chs |->
        [chs[k] EXCEPT !.target_week_start = isoformat(chs[k].target_week_start)]]

\* POST /rebalance/apply with the changes of the plan just calculated.
apply_plan ==
    /\ pc = "done"
    /\ request' = PlanChanges(changes)
    /\ aidx' = 1
    /\ applied' = <<>>
    /\ errors' = <<>>
    /\ apply_result' = <<>>
    /\ pc' = "apply"
    /\ UNCHANGED <<inputs, router_vars, db, user_id, calls, sorted_weeks, week_info, week_load,
                   changes, overdue_count, pulled_forward_count, widx, movable,
                   excess, pull_branch, spare_capacity, future_weeks, fidx,
                   pullable, overloaded_weeks, message, recommendations>>

\* Tables the flow may start on: the tasks of a table are its first tasks,
\* up to MaxRows of them, and its goals those of these tasks.  The first
\* table starts with two open tasks of one goal of u1, in an overdue and in a
\* future week, the second with a closed task and a task of another user,
\* the third with a task of a paused goal that has no target_count and a
\* cancelled task.
FlowTables ==
    {[tasks |-> <<StoreRow("u1", 1, LongTitle, 7, <<3>>, "NEW", 1),
                  StoreRow("u1", 1, LongTitle, 21, <<3>>, "NEW", 1),
                  StoreRow("u2", 2, ShortTitle, 7, <<3>>, "NEW", 1)>>,
      goals |-> <<GoalRow("u1", "ACTIVE", <<>>),
                  GoalRow("u2", "ACTIVE", <<>>)>>],
     [tasks |-> <<StoreRow("u1", 1, ShortTitle, 7, <<3>>, "DONE", 1),
                  StoreRow("u2", 2, ShortTitle, 7, <<3>>, "NEW", 1),
                  StoreRow("u1", 3, ShortTitle, 7, <<3>>, "NEW", 1)>>,
      goals |-> <<GoalRow("u1", "ACTIVE", <<>>),
                  GoalRow("u2", "ACTIVE", <<>>),
                  GoalRow("u1", "PAUSED", <<>>)>>],
     [tasks |-> <<StoreRow("u1", 1, ShortTitle, 7, <<>>, "NEW", 1),
                  StoreRow("u1", 2, ShortTitle, 21, <<3>>, "CANCELLED", 1),
                  StoreRow("u1", 2, ShortTitle, 7, <<3>>, "NEW", 1)>>,
      goals |-> <<GoalRow("u1", "PAUSED", <<>>),
                  GoalRow("u1", "ACTIVE", <<>>)>>]}

\* The first n tasks of a table and the goals they belong to.
FlowStore(t, n) ==
    LET rows == SubSeq(t.tasks, 1, n)
    IN  [db |-> rows,
         goals |-> [g \in {rows[i].goal_id : i \in 1..n} |-> t.goals[g]]]

FlowStores == {FlowStore(t, n) : t \in FlowTables, n \in 0..MaxRows}

InitFlow ==
    /\ \E store \in FlowStores :
         /\ db = store.db
         /\ goals = store.goals
    /\ user_id = "u1"
    /\ pc = "fetch"
    /\ tasks = <<>>
    /\ goal_deadline = <<>>
    /\ today = 14
    /\ current_week_hours = 4
    /\ future_week_hours = 2
    /\ request = <<>>
    /\ aidx = 1
    /\ applied = <<>>
    /\ errors = <<>>
    /\ apply_result = <<>>
    /\ calls = <<>>
    /\ served = 0
    /\ pending = {}
    /\ sorted_weeks = <<>>
    /\ week_info = <<>>
    /\ week_load = <<>>
    /\ changes = <<>>
    /\ overdue_count = 0
    /\ pulled_forward_count = 0
    /\ widx = 1
    /\ movable = <<>>
    /\ excess = 0
    /\ pull_branch = "none"
    /\ spare_capacity = 0
    /\ future_weeks = <<>>
    /\ fidx = 1
    /\ pullable = <<>>
    /\ overloaded_weeks = <<>>
    /\ message = <<>>
    /\ recommendations = <<>>

NextFlow ==
    \/ Fetch
    \/ Begin
    \/ PushWeek
    \/ PushTask
    \/ PullStart
    \/ PullWeek
    \/ PullTask
    \/ Assemble
    \/ update_task
    \/ move_task
    \/ complete_task
    \/ delete_task
    \/ update_goal
    \/ delete_goal
    \/ delete_all_goals
    \/ create_goal
    \/ NextStatement
    \/ apply_plan
    \/ ApplySelect
    \/ ApplyUpdate
    \/ ApplyReturn

SpecFlow == InitFlow /\ [][NextFlow]_vars

\* ------------------------------------------------------------------------
\* Specification of calculate_rebalance over every kind of stored
\* target_count
\* ------------------------------------------------------------------------

\* None and the integers from -1 to 22.
WideTargetCounts == {<<>>} \cup {<<n>> : n \in (0 - 1)..22}

\* Snapshots of up to n NEW tasks in the current week (2024-12-30) and the
\* next one: one task has any of the wide target_counts, the others 3 or 21.
HourSnapshots(n) ==
    UNION {{[i \in 1..m |-> TaskRow(s[i], i, <<>>)] :
              s \in {q \in {[i \in 1..m |-> IF i = p THEN wide ELSE rest[i]] :
                              p \in 1..m,
                              wide \in [week_start : {14, 21},
                                        target_count : WideTargetCounts,
                                        status : {"NEW"}, priority : {1}],
                              rest \in [1..m -> [week_start : {14, 21},
                                                 target_count : {<<3>>, <<21>>},
                                                 status : {"NEW"},
                                                 priority : {1}]]} :
                       FetchOrdered(q)}} :
           m \in 0..n}

InitHours ==
    /\ goal_deadline = <<>>
    /\ tasks \in HourSnapshots(MaxTasks)
    /\ today = 14
    /\ current_week_hours = 4
    /\ future_week_hours = 4
    /\ pc = "start"
    /\ sorted_weeks = <<>>
    /\ week_info = <<>>
    /\ week_load = <<>>
    /\ changes = <<>>
    /\ overdue_count = 0
    /\ pulled_forward_count = 0
    /\ widx = 1
    /\ movable = <<>>
    /\ excess = 0
    /\ pull_branch = "none"
    /\ spare_capacity = 0
    /\ future_weeks = <<>>
    /\ fidx = 1
    /\ pullable = <<>>
    /\ overloaded_weeks = <<>>
    /\ message = <<>>
    /\ recommendations = <<>>
    /\ db = <<>>
    /\ user_id = "u1"
    /\ request = <<>>
    /\ aidx = 1
    /\ applied = <<>>
    /\ errors = <<>>
    /\ apply_result = <<>>
    /\ calls = <<>>
    /\ served = 0
    /\ goals = <<>>
    /\ pending = {}

SpecHours == InitHours /\ [][Next]_vars

\* ------------------------------------------------------------------------
\* Vocabulary of the properties
\* ------------------------------------------------------------------------

Done == pc = "done"

\* The positions in changes that move task i.
ChangesFor(i) == {k \in DOMAIN changes : changes[k].task_id = i}

Moved(i) == ChangesFor(i) # {}

\* The classification of the week starting on Monday d (spec 4.1).
ClassOf(d) == WeekType(d, StrfYW(d))

\* The capacity the policy gives a classification (spec 4.3).
CapacityOfClass(c) ==
    IF c = "overdue" THEN 0
    ELSE IF c = "current" THEN current_week_hours
    ELSE future_week_hours

\* The load of the week starting on d in the input snapshot.
SnapshotLoad(d) == HoursOf(SelectSeq(tasks, LAMBDA t : t.week_start = d))

\* The week of task i once the changes recorded so far are applied.
AppliedStart(i) ==
    IF Moved(i)
    THEN changes[CHOOSE k \in ChangesFor(i) : \A m \in ChangesFor(i) : m <= k].target_week_start
    ELSE tasks[i].week_start

\* The load of the week starting on d once the changes are applied.
AppliedLoad(d) ==
    HoursOf(SelectSeq(tasks, LAMBDA t : AppliedStart(t.task_id) = d))

\* ------------------------------------------------------------------------
\* C1
\* ------------------------------------------------------------------------

\* C1: no task_id appears in more than one entry of changes: a pushed task is
\* neither pushed again nor pulled.
C1_NoDoubleMove ==
    \A i, j \in DOMAIN changes : i # j => changes[i].task_id # changes[j].task_id

\* The pull phase met a NEW task it had pushed out of a future week and left
\* it alone although the current week still had room for it.
C1_Witness ==
    /\ Done
    /\ \E k \in DOMAIN changes :
         /\ changes[k].direction = "push"
         /\ tasks[changes[k].task_id].status = "NEW"
         /\ \E f \in DOMAIN future_weeks : future_weeks[f] = changes[k].from_week
         /\ get_hours(tasks[changes[k].task_id]) <= spare_capacity

\* ------------------------------------------------------------------------
\* C2
\* ------------------------------------------------------------------------

\* C2: in the returned plan every non-IN_PROGRESS task of an overdue week is
\* pushed with is_overdue = true into a week that is not overdue, so that no
\* such task remains assigned to an overdue week once the plan is applied, and
\* no IN_PROGRESS task of an overdue week is moved.
C2_OverdueForced ==
    Done =>
      \A i \in DOMAIN tasks :
        ClassOf(tasks[i].week_start) = "overdue" =>
          IF tasks[i].status = "IN_PROGRESS" THEN ~ Moved(i)
          ELSE \E k \in ChangesFor(i) :
                 /\ changes[k].direction = "push"
                 /\ changes[k].is_overdue
                 /\ ClassOf(changes[k].target_week_start) # "overdue"

\* ------------------------------------------------------------------------
\* C3
\* ------------------------------------------------------------------------

\* Every week of the snapshot is within its capacity and none is overdue.
Balanced ==
    \A i \in DOMAIN tasks :
        /\ ClassOf(tasks[i].week_start) # "overdue"
        /\ SnapshotLoad(tasks[i].week_start)
             <= CapacityOfClass(ClassOf(tasks[i].week_start))

\* C3 as stated: a balanced snapshot without overdue weeks gives an empty
\* changes list.
C3_Original == (Done /\ Balanced) => changes = <<>>

\* A NEW task of a future week that fits in the room the current week has in
\* the snapshot.
PullCandidate(i) ==
    /\ tasks[i].status = "NEW"
    /\ ClassOf(tasks[i].week_start) = "future"
    /\ get_hours(tasks[i]) <= current_week_hours - SnapshotLoad(current_week_start)

\* C3 amended: a balanced snapshot without overdue weeks gives a plan without
\* any push; its changes are pulls of NEW future tasks into the current week,
\* and the list is empty when no NEW future task fits in the room the current
\* week has.
C3_BalancedNoPush ==
    (Done /\ Balanced) =>
        /\ \A k \in DOMAIN changes : changes[k].direction = "pull"
        /\ (\A i \in DOMAIN tasks : ~ PullCandidate(i)) => changes = <<>>

\* A balanced snapshot whose plan pulls a task, the current week holding a
\* task already.
C3_Witness ==
    /\ Done
    /\ Balanced
    /\ changes # <<>>
    /\ \E i \in DOMAIN tasks : ClassOf(tasks[i].week_start) = "current"

\* ------------------------------------------------------------------------
\* C4
\* ------------------------------------------------------------------------

\* C4: every push change has a target week that starts on or after the Monday
\* of the current week.
C4_PushTargetNotPast ==
    \A k \in DOMAIN changes :
        changes[k].direction = "push"
            => changes[k].target_week_start >= current_week_start

\* ------------------------------------------------------------------------
\* C5
\* ------------------------------------------------------------------------

\* C5: no push moves a task to a week that starts after the deadline of the
\* task's goal.
C5_PushWithinDeadline ==
    \A k \in DOMAIN changes :
        (changes[k].direction = "push"
         /\ tasks[changes[k].task_id].goal_deadline # <<>>)
            => changes[k].target_week_start
                 <= tasks[changes[k].task_id].goal_deadline[1]

\* ------------------------------------------------------------------------
\* C6
\* ------------------------------------------------------------------------

\* Task i had to move and the goal deadline kept it where it was: it is not
\* IN_PROGRESS, it is in no change, the week that would be synthesized starts
\* after its deadline, and its week is overdue or still over its capacity.
HeldByDeadline(i) ==
    /\ tasks[i].status # "IN_PROGRESS"
    /\ ~ Moved(i)
    /\ tasks[i].goal_deadline # <<>>
    /\ NewWeekStart > tasks[i].goal_deadline[1]
    /\ \/ ClassOf(tasks[i].week_start) = "overdue"
       \/ LoadOf(week_load, tasks[i].year_week)
            > CapacityOfClass(ClassOf(tasks[i].week_start))

\* C6: when a task that had to move is left unmoved because of its goal
\* deadline, the plan lists an overloaded week, recommends "Some high-priority
\* tasks can't be moved" and does not say the workload is balanced.
C6_HeldTaskReported ==
    (Done /\ \E i \in DOMAIN tasks : HeldByDeadline(i)) =>
        /\ overloaded_weeks # <<>>
        /\ \E r \in DOMAIN recommendations :
             recommendations[r].text = "Some high-priority tasks can't be moved"
        /\ message.fixed # "Your workload is already balanced!"

\* ------------------------------------------------------------------------
\* C7
\* ------------------------------------------------------------------------

\* The labels listed in summary.overloaded_weeks.
FlaggedWeeks == {overloaded_weeks[k].week : k \in DOMAIN overloaded_weeks}

\* C7: once the changes are applied, every current or future week that is not
\* listed in overloaded_weeks has a load of at most its capacity.
C7_CapacityRespected ==
    Done =>
      \A i \in DOMAIN tasks :
        LET d == AppliedStart(i)
        IN  (ClassOf(d) # "overdue" /\ StrfYW(d) \notin FlaggedWeeks)
                => AppliedLoad(d) <= CapacityOfClass(ClassOf(d))

\* ------------------------------------------------------------------------
\* C8
\* ------------------------------------------------------------------------

\* C8: every pull moves a NEW task out of a week classified future into the
\* current week.
C8_PullOnlyNewFromFuture ==
    \A k \in DOMAIN changes :
        changes[k].direction = "pull" =>
            LET t == tasks[changes[k].task_id]
            IN  /\ t.status = "NEW"
                /\ ClassOf(t.week_start) = "future"
                /\ changes[k].from_week = t.year_week
                /\ changes[k].to_week = current_year_week
                /\ changes[k].target_week_start = current_week_start

\* A plan with a pull that leaves a BLOCKED task of a future week in place
\* although the current week still has room for it.
C8_Witness ==
    /\ Done
    /\ \E k \in DOMAIN changes : changes[k].direction = "pull"
    /\ \E i \in DOMAIN tasks :
         /\ tasks[i].status = "BLOCKED"
         /\ ClassOf(tasks[i].week_start) = "future"
         /\ ~ Moved(i)
         /\ get_hours(tasks[i]) <= spare_capacity

\* ------------------------------------------------------------------------
\* C9
\* ------------------------------------------------------------------------

RECURSIVE SumOver(_, _)
SumOver(load, S) ==
    IF S = {} THEN 0
    ELSE LET w == CHOOSE x \in S : TRUE
         IN  load[w] + SumOver(load, S \ {w})

\* The hours the load mapping holds over all weeks.
TotalLoad == SumOver(week_load, DOMAIN week_load)

\* C9: rebalancing conserves tasks: every change moves a task of the snapshot
\* out of the week it is in, no task has two changes (so applying the changes
\* leaves every task in exactly one week), and the hours tracked over all
\* weeks stay the total hours of the snapshot.
C9_Conservation ==
    /\ \A k \in DOMAIN changes :
         /\ changes[k].task_id \in DOMAIN tasks
         /\ changes[k].from_week = tasks[changes[k].task_id].year_week
         /\ changes[k].to_week # changes[k].from_week
    /\ \A i \in DOMAIN tasks : Cardinality(ChangesFor(i)) <= 1
    /\ (pc # "start" /\ tasks # <<>>) => TotalLoad = HoursOf(tasks)

\* A plan that pushes one task and pulls another.
C9_Witness ==
    /\ Done
    /\ \E k \in DOMAIN changes : changes[k].direction = "push"
    /\ \E k \in DOMAIN changes : changes[k].direction = "pull"

\* ------------------------------------------------------------------------
\* C10
\* ------------------------------------------------------------------------

\* C10: a task whose status is IN_PROGRESS is in no change.
C10_InProgressStays ==
    \A k \in DOMAIN changes : tasks[changes[k].task_id].status # "IN_PROGRESS"

\* An IN_PROGRESS task shares an overdue week with a task that was pushed out
\* of it.
C10_Witness ==
    /\ Done
    /\ \E i \in DOMAIN tasks :
         /\ tasks[i].status = "IN_PROGRESS"
         /\ ClassOf(tasks[i].week_start) = "overdue"
         /\ \E k \in DOMAIN changes : changes[k].from_week = tasks[i].year_week

\* ------------------------------------------------------------------------
\* C11
\* ------------------------------------------------------------------------

\* C11: in a plan computed with current_week_hours = 0 every non-IN_PROGRESS
\* task of the current week is pushed unless its goal deadline forbids the
\* new week, no change has direction "pull", and no change has the current
\* week as its target.
C11_CurrentWeekEmptied ==
    (Done /\ current_week_hours = 0) =>
        /\ \A i \in DOMAIN tasks :
             (tasks[i].week_start = current_week_start
                /\ tasks[i].status # "IN_PROGRESS") =>
                    \/ Moved(i)
                    \/ /\ tasks[i].goal_deadline # <<>>
                       /\ NewWeekStart > tasks[i].goal_deadline[1]
        /\ \A k \in DOMAIN changes :
             /\ changes[k].direction # "pull"
             /\ changes[k].target_week_start # current_week_start
             /\ changes[k].to_week # current_year_week

\* ------------------------------------------------------------------------
\* Vocabulary of the properties of apply_rebalance
\* ------------------------------------------------------------------------

Returned == pc = "returned"

IsMove(change) == DictGet(change, "action") = <<"move">>

\* The positions of the request, in order.
Positions == [k \in 1..Len(request) |-> k]

\* A move change with nothing wrong in it: it names a task of the requesting
\* user and carries a from_week and a target_week_start that is a date.
Sound(change) ==
    /\ "task_id" \in DOMAIN change
    /\ "from_week" \in DOMAIN change
    /\ "target_week_start" \in DOMAIN change
    /\ IsIsoDate(change.target_week_start)
    /\ SelectTask(InitialStore, change.task_id, user_id)

\* The task_ids of the entries of a result list.
TaskIds(entries) == [j \in DOMAIN entries |-> entries[j].task_id]

\* The tasks whose row is no longer the one the call found.
WrittenTasks == {i \in DOMAIN db : db[i] # InitialStore[i]}

\* ------------------------------------------------------------------------
\* C12
\* ------------------------------------------------------------------------

\* C12: when apply_rebalance returns, the move changes are split, in order,
\* between applied and errors: for some set of changes hit by a storage
\* error, applied holds exactly the sound changes that were not hit and
\* errors holds every other move change, wherever it sits in the list (a
\* sound change is in errors only with "Database error"); total_applied +
\* total_errors is the number of move changes and success is true exactly
\* when errors is empty.
C12_IndependentChanges ==
    Returned =>
        /\ apply_result.total_applied = Len(apply_result.applied)
        /\ apply_result.total_errors = Len(apply_result.errors)
        /\ apply_result.total_applied + apply_result.total_errors
             = Cardinality({k \in DOMAIN request : IsMove(request[k])})
        /\ apply_result.success = (apply_result.errors = <<>>)
        /\ \E hit \in SUBSET DOMAIN request :
             LET ok == SelectSeq(Positions, LAMBDA k :
                           IsMove(request[k]) /\ Sound(request[k]) /\ k \notin hit)
                 bad == SelectSeq(Positions, LAMBDA k :
                            IsMove(request[k]) /\ (~ Sound(request[k]) \/ k \in hit))
             IN  /\ TaskIds(apply_result.applied) = [j \in DOMAIN ok |-> request[ok[j]].task_id]
                 /\ TaskIds(apply_result.errors) = [j \in DOMAIN bad |-> request[bad[j]].task_id]
                 /\ \A j \in DOMAIN bad :
                      Sound(request[bad[j]]) =>
                          apply_result.errors[j].error = "Database error"

\* The first of two move changes failed and the second one was applied.
C12_Witness ==
    /\ Returned
    /\ Len(request) = 2
    /\ IsMove(request[1]) /\ ~ Sound(request[1])
    /\ IsMove(request[2]) /\ Sound(request[2])
    /\ Len(apply_result.errors) = 1
    /\ Len(apply_result.applied) = 1
    /\ ~ apply_result.success

\* ------------------------------------------------------------------------
\* C13
\* ------------------------------------------------------------------------

\* C13: when apply_rebalance returns, every task whose row was written is in
\* applied, and every task that is in errors and not in applied has the row
\* it had before the call.
C13_AppliedExactlyWritten ==
    Returned =>
        /\ \A i \in WrittenTasks :
             \E j \in DOMAIN apply_result.applied : apply_result.applied[j].task_id = i
        /\ \A j \in DOMAIN apply_result.errors :
             LET i == apply_result.errors[j].task_id
             IN  (i \in DOMAIN db
                    /\ \A a \in DOMAIN apply_result.applied :
                          apply_result.applied[a].task_id # i)
                 => db[i] = InitialStore[i]

\* ------------------------------------------------------------------------
\* C14
\* ------------------------------------------------------------------------

\* C14: no list of change records makes apply_rebalance raise: the call
\* never ends with an exception leaving the function.
C14_NeverRaises == pc # "raised"

\* ------------------------------------------------------------------------
\* C15
\* ------------------------------------------------------------------------

\* The move changes that are well-formed and name a task of another user.
ForeignChanges ==
    {k \in DOMAIN request :
        /\ IsMove(request[k])
        /\ "task_id" \in DOMAIN request[k]
        /\ "target_week_start" \in DOMAIN request[k]
        /\ IsIsoDate(request[k].target_week_start)
        /\ request[k].task_id \in DOMAIN InitialStore
        /\ InitialStore[request[k].task_id].user_id # user_id}

\* C15: the row of a task that user_id does not own is never modified, and
\* when the call returns without a storage error every well-formed change
\* naming such a task has its own error entry "Task not found".
C15_OnlyOwnTasks ==
    /\ \A i \in DOMAIN db :
         InitialStore[i].user_id # user_id => db[i] = InitialStore[i]
    /\ (Returned /\ \A j \in DOMAIN errors : errors[j].error # "Database error") =>
         \A i \in DOMAIN db :
            Cardinality({k \in ForeignChanges : request[k].task_id = i})
              = Cardinality({j \in DOMAIN errors :
                               errors[j] = ErrorEntry(i, "Task not found")})

\* A request moved the user's own task and was refused the other user's.
C15_Witness ==
    /\ Returned
    /\ ForeignChanges # {}
    /\ \E j \in DOMAIN apply_result.errors :
         apply_result.errors[j] = ErrorEntry(2, "Task not found")
    /\ \E j \in DOMAIN apply_result.applied : apply_result.applied[j].task_id = 1
    /\ db[2] = InitialStore[2]

\* ------------------------------------------------------------------------
\* C16
\* ------------------------------------------------------------------------

\* C16: every task written by apply_rebalance has week_start on a Monday,
\* week_end six days later and year_week the label of week_start.
C16_WrittenWeekIsMonday ==
    \A i \in WrittenTasks :
        /\ Weekday(db[i].week_start) = 0
        /\ db[i].week_end = db[i].week_start + 6
        /\ db[i].year_week = StrfYW(db[i].week_start)

\* ------------------------------------------------------------------------
\* C17
\* ------------------------------------------------------------------------

\* The week fields of every row.
Schedule(store) ==
    [i \in DOMAIN store |->
        <<store[i].week_start, store[i].week_end, store[i].year_week>>]

\* A step of calculate_rebalance.
CalculateStep ==
    Fetch \/ Begin \/ PushWeek \/ PushTask \/ PullStart \/ PullWeek \/ PullTask
      \/ Assemble

\* The step is a statement of a request served by the task or goal router.
RouterRequest == served' # served \/ pending' # pending

\* C17: no step of calculate_rebalance changes the tasks table, however
\* often it is called: a step that changes a row is a request of the task
\* router or, within the rebalancer, the UPDATE of apply_rebalance.
C17_CalculateReadOnly ==
    [][/\ CalculateStep => db' = db /\ goals' = goals
       /\ db' # db => RouterRequest \/ ApplyUpdate]_vars

\* A plan with a change has been returned and the task it moves is still
\* stored in the week the plan found it in.
C17_Witness ==
    /\ Done
    /\ changes # <<>>
    /\ \A k \in DOMAIN changes :
         /\ changes[k].task_id \in DOMAIN db
         /\ db[changes[k].task_id].year_week = changes[k].from_week
         /\ db[changes[k].task_id].week_start # changes[k].target_week_start

\* ------------------------------------------------------------------------
\* C18
\* ------------------------------------------------------------------------

\* C18: a task the snapshot was fetched without (DONE or CANCELLED) is in no
\* row of the snapshot and in no change, and the UPDATE of apply_rebalance
\* changes the week_start, week_end or year_week of no task whose status is
\* DONE or CANCELLED, in particular of no task closed after the plan was
\* made.
C18_ClosedTasksStay ==
    /\ [](\A k \in DOMAIN tasks : tasks[k].status \notin ClosedStatuses)
    /\ [](\A k \in DOMAIN changes :
            \E j \in DOMAIN tasks : tasks[j].task_id = changes[k].task_id)
    /\ [][ApplyUpdate =>
            \A i \in DOMAIN db :
                db[i].status \in ClosedStatuses =>
                    Schedule(db')[i] = Schedule(db)[i]]_vars

\* ------------------------------------------------------------------------
\* C19
\* ------------------------------------------------------------------------

\* The hours the specification gives a stored target_count.
ClampedHours(tc) ==
    IF tc = <<>> THEN 1
    ELSE IF tc[1] \in 1..8 THEN tc[1]
    ELSE IF tc[1] \in 9..20 THEN 8
    ELSE 1

\* The label of the week task i is in once the changes so far are applied.
AppliedWeek(i) ==
    IF Moved(i)
    THEN changes[CHOOSE k \in ChangesFor(i) : \A m \in ChangesFor(i) : m <= k].to_week
    ELSE tasks[i].year_week

RECURSIVE ClampedSum(_)
ClampedSum(S) ==
    IF S = {} THEN 0
    ELSE LET i == CHOOSE x \in S : TRUE
         IN  ClampedHours(tasks[i].target_count) + ClampedSum(S \ {i})

\* C19: for every stored target_count the hours of a task are in 1..8: the
\* target_count itself for 1..8, 8 for 9..20, 1 for None, values <= 0 and
\* values > 20; and the load of every week is the sum of these hours over the
\* tasks the week holds.
C19_HoursClamped ==
    /\ \A i \in DOMAIN tasks :
         /\ get_hours(tasks[i]) \in 1..8
         /\ get_hours(tasks[i]) = ClampedHours(tasks[i].target_count)
    /\ \A w \in DOMAIN week_load :
         week_load[w] = ClampedSum({i \in DOMAIN tasks : AppliedWeek(i) = w})

\* A plan was made for a task with target_count above 20 and a task with
\* target_count between 9 and 20, and one of them was moved.
C19_Witness ==
    /\ Done
    /\ \E i, j \in DOMAIN tasks :
         /\ tasks[i].target_count # <<>> /\ tasks[i].target_count[1] > 20
         /\ tasks[j].target_count # <<>> /\ tasks[j].target_count[1] \in 9..20
         /\ Moved(j)
    /\ week_load # <<>>

\* ------------------------------------------------------------------------
\* C20
\* ------------------------------------------------------------------------

\* The Mondays of the weeks known before a step.
KnownWeekStarts == {week_info[w].week_start : w \in DOMAIN week_info}

\* The search space of a push out of the week starting on src: the known
\* current and future weeks for an overdue source, the known later weeks
\* otherwise.
SearchSpace(src) ==
    IF ClassOf(src) = "overdue"
    THEN {d \in KnownWeekStarts : ClassOf(d) \in {"current", "future"}}
    ELSE {d \in KnownWeekStarts : d > src}

\* The weeks of the search space with room for h more hours.
WeeksWithRoom(src, h) ==
    {d \in SearchSpace(src) :
        LoadOf(week_load, StrfYW(d)) + h <= CapacityOfClass(ClassOf(d))}

\* C20: every step that records a push sends the task to the earliest week
\* of the search space that has room for it at that moment, and to a week
\* not known before only when no week of the search space has room.
C20_FirstFit ==
    [][(Len(changes') = Len(changes) + 1
          /\ changes'[Len(changes')].direction = "push") =>
        LET c == changes'[Len(changes')]
            task == tasks[c.task_id]
            room == WeeksWithRoom(task.week_start, get_hours(task))
        IN  IF room # {}
            THEN \A d \in room : c.target_week_start <= d
                 /\ c.target_week_start \in room
            ELSE c.target_week_start \notin KnownWeekStarts]_vars

\* ------------------------------------------------------------------------
\* C21
\* ------------------------------------------------------------------------

\* A step that records a push.
PushRecorded ==
    /\ Len(changes') = Len(changes) + 1
    /\ changes'[Len(changes')].direction = "push"

\* C21: every step that records a push leaves the destination week, whether
\* it was known before or is synthesized by the step, with a load of at most
\* the capacity calculate_rebalance gives that week.
C21_PushWithinCapacity ==
    [][PushRecorded =>
        LET c == changes'[Len(changes')]
        IN  LoadOf(week_load, c.to_week) + get_hours(tasks[c.task_id])
              <= get_capacity(week_info', c.to_week)]_vars

\* ------------------------------------------------------------------------
\* C22
\* ------------------------------------------------------------------------

\* C22: every week calculate_rebalance knows, the weeks its push phase
\* synthesizes included, is typed current exactly when its label is the
\* current week's label, and has the capacity of its true classification.
C22_WeekTypedByCalendar ==
    \A w \in DOMAIN week_info :
        /\ (TypeOf(week_info, w) = "current") <=> (w = current_year_week)
        /\ get_capacity(week_info, w)
             = CapacityOfClass(ClassOf(week_info[w].week_start))

\* ------------------------------------------------------------------------
\* calculate_rebalance on one more task than MaxTasks, all in the weeks of
\* 2024-12-30 and 2025-01-06, seen from the week before and from the first
\* of the two (SpecOrder)
\* ------------------------------------------------------------------------

\* No deadline, a deadline before the second week, and one inside it.
OrderDeadlines == GoalDeadlines \cup {<<23>>}

OrderAttrs ==
    [week_start : {14, 21}, target_count : TargetCounts,
     status : {"NEW", "IN_PROGRESS"}, priority : Priorities]

InitOrder ==
    /\ goal_deadline \in OrderDeadlines
    /\ \E q \in [1..(MaxTasks + 1) -> OrderAttrs] :
         /\ FetchOrdered(q)
         /\ tasks = SnapshotOf(q, goal_deadline)
    /\ today \in Todays
    /\ current_week_hours \in CurrentWeekHoursValues
    /\ future_week_hours = 2
    /\ pc = "start"
    /\ sorted_weeks = <<>>
    /\ week_info = <<>>
    /\ week_load = <<>>
    /\ changes = <<>>
    /\ overdue_count = 0
    /\ pulled_forward_count = 0
    /\ widx = 1
    /\ movable = <<>>
    /\ excess = 0
    /\ pull_branch = "none"
    /\ spare_capacity = 0
    /\ future_weeks = <<>>
    /\ fidx = 1
    /\ pullable = <<>>
    /\ overloaded_weeks = <<>>
    /\ message = <<>>
    /\ recommendations = <<>>
    /\ db = <<>>
    /\ user_id = "u1"
    /\ request = <<>>
    /\ aidx = 1
    /\ applied = <<>>
    /\ errors = <<>>
    /\ apply_result = <<>>
    /\ calls = <<>>
    /\ served = 0
    /\ goals = <<>>
    /\ pending = {}

SpecOrder == InitOrder /\ [][Next]_vars

\* ------------------------------------------------------------------------
\* C23
\* ------------------------------------------------------------------------

\* The positions in changes that record a push.
Pushes == {k \in DOMAIN changes : changes[k].direction = "push"}

\* The pushes out of one week are recorded in non-increasing priority number,
\* tasks of equal priority in fetched order.
PushOrder ==
    \A k \in Pushes : \A m \in Pushes :
        (k < m /\ changes[k].from_week = changes[m].from_week) =>
            LET a == tasks[changes[k].task_id]
                b == tasks[changes[m].task_id]
            IN  \/ a.priority > b.priority
                \/ a.priority = b.priority /\ a.task_id < b.task_id

\* The tasks of the week of task i that are not IN_PROGRESS and have a
\* strictly larger priority number than task i.
LessUrgentPeers(i) ==
    {j \in DOMAIN tasks :
        /\ tasks[j].year_week = tasks[i].year_week
        /\ tasks[j].status # "IN_PROGRESS"
        /\ tasks[j].priority > tasks[i].priority}

PushedBefore(j, k) == \E m \in Pushes : m < k /\ changes[m].task_id = j

\* C23 as stated: the pushes out of one week are recorded in non-increasing
\* priority number, ties in fetched order, and a task is pushed out of a
\* current or future week only after every less urgent task of that week
\* that is not IN_PROGRESS has been pushed.
C23_Original ==
    /\ PushOrder
    /\ \A k \in Pushes :
         ~ changes[k].is_overdue =>
            \A j \in LessUrgentPeers(changes[k].task_id) : PushedBefore(j, k)

\* Task j is in no push change.
NeverPushed(j) == \A m \in Pushes : changes[m].task_id # j

\* The inner loop of a current or future source week passes over the task at
\* the head of movable: excess is left, and the iteration records no change.
PassedOver ==
    /\ pc = "pushtask"
    /\ week_info[sorted_weeks[widx]].type # "overdue"
    /\ excess > 0
    /\ changes' = changes

\* No week listed after the source week has room for the task at the head of
\* movable, and the week after the last listed one starts after the deadline
\* of the task's goal.
NoDestination ==
    LET task == Head(movable)
    IN  /\ \A p \in (widx + 1)..Len(sorted_weeks) :
              LoadOf(week_load, sorted_weeks[p]) + get_hours(task)
                > CapacityOfClass(TypeOf(week_info, sorted_weeks[p]))
        /\ task.goal_deadline # <<>>
        /\ NewWeekStart > task.goal_deadline[1]

\* C23: the pushes out of one week are recorded in non-increasing priority
\* number, ties in fetched order; a task is pushed out of a current or future
\* week only if every less urgent task of that week that is not IN_PROGRESS
\* has been pushed before it or is in no push at all, its goal having a
\* deadline before the week to synthesize; and the push engine passes over a
\* task of such a week only when, at the task's turn, no later known week has
\* room for it and the week to synthesize starts after its goal's deadline.
\* A task passed over may still be pulled into the current week.
C23_LessUrgentFirst ==
    /\ [](/\ PushOrder
          /\ \A k \in Pushes :
               ~ changes[k].is_overdue =>
                  \A j \in LessUrgentPeers(changes[k].task_id) :
                      \/ PushedBefore(j, k)
                      \/ /\ NeverPushed(j)
                         /\ tasks[j].goal_deadline # <<>>
                         /\ NewWeekStart > tasks[j].goal_deadline[1])
    /\ [][PassedOver => NoDestination]_vars

\* A returned plan with two pushes out of one future week, the less urgent
\* task first, where a task less urgent than the second one was passed over
\* and then pulled into the current week.
C23_Witness ==
    /\ Done
    /\ \E k \in Pushes : \E m \in Pushes :
         /\ k < m
         /\ ~ changes[k].is_overdue
         /\ changes[k].from_week = changes[m].from_week
         /\ tasks[changes[k].task_id].priority
              > tasks[changes[m].task_id].priority
         /\ \E j \in LessUrgentPeers(changes[m].task_id) :
              /\ NeverPushed(j)
              /\ \E p \in ChangesFor(j) : changes[p].direction = "pull"

\* ------------------------------------------------------------------------
\* C24
\* ------------------------------------------------------------------------

\* C24: a push out of a current or future week is recorded only while the
\* running load of that week exceeds its capacity, and only out of a week
\* whose load in the snapshot exceeded it.
C24_PushOnlyWhileOverloaded ==
    [][(PushRecorded /\ ~ changes'[Len(changes')].is_overdue) =>
        LET c == changes'[Len(changes')]
            d == tasks[c.task_id].week_start
        IN  /\ ClassOf(d) # "overdue"
            /\ week_load[c.from_week] > CapacityOfClass(ClassOf(d))
            /\ SnapshotLoad(d) > CapacityOfClass(ClassOf(d))]_vars

\* A task has been pushed out of a current or future week and another task
\* of that week, not IN_PROGRESS, has stayed because the week's load had come
\* down to its capacity.
C24_Witness ==
    /\ Done
    /\ \E k \in Pushes :
         /\ ~ changes[k].is_overdue
         /\ \E j \in DOMAIN tasks :
              /\ tasks[j].year_week = changes[k].from_week
              /\ tasks[j].status # "IN_PROGRESS"
              /\ ~ Moved(j)
              /\ week_load[tasks[j].year_week]
                   <= CapacityOfClass(ClassOf(tasks[j].week_start))

\* ------------------------------------------------------------------------
\* C25
\* ------------------------------------------------------------------------

\* A step that records a pull.
PullRecorded ==
    /\ Len(changes') = Len(changes) + 1
    /\ changes'[Len(changes')].direction = "pull"

\* The tasks the pull phase may still take with the room spare: NEW, in a
\* future week, in no change so far, of at most spare hours.
Eligible(spare) ==
    {j \in DOMAIN tasks :
        /\ tasks[j].status = "NEW"
        /\ ClassOf(tasks[j].week_start) = "future"
        /\ ~ Moved(j)
        /\ get_hours(tasks[j]) <= spare}

\* C25: when a task is pulled, no task eligible at that moment, in whatever
\* future week, is strictly more urgent than it.
C25_MostUrgentPulledFirst ==
    [][PullRecorded =>
        \A j \in Eligible(spare_capacity) :
            tasks[j].priority
              >= tasks[changes'[Len(changes')].task_id].priority]_vars

\* ------------------------------------------------------------------------
\* C26
\* ------------------------------------------------------------------------

\* The room left in the current week once the changes so far are applied.
Spare == current_week_hours - AppliedLoad(current_week_start)

\* C26: no push is recorded after a pull; a pull is recorded only while the
\* current week has room to spare and leaves its load at most
\* current_week_hours; and in the finished plan no NEW task of a future week
\* that is in no change has hours of at most the room still spare.
C26_PullsOnlyUseSpare ==
    /\ [](\A k \in DOMAIN changes : \A m \in DOMAIN changes :
            (k < m /\ changes[k].direction = "pull")
                => changes[m].direction = "pull")
    /\ [](Done => Eligible(Spare) = {})
    /\ [][PullRecorded =>
            /\ Spare > 0
            /\ Spare' >= 0
            /\ Spare' = Spare - get_hours(tasks[changes'[Len(changes')].task_id])
         ]_vars

\* A task has been pulled and a NEW task of a future week has stayed because
\* it does not fit into the room that is left.
C26_Witness ==
    /\ Done
    /\ \E k \in DOMAIN changes : changes[k].direction = "pull"
    /\ \E j \in DOMAIN tasks :
         /\ tasks[j].status = "NEW"
         /\ ClassOf(tasks[j].week_start) = "future"
         /\ ~ Moved(j)
         /\ get_hours(tasks[j]) > Spare

\* ------------------------------------------------------------------------
\* C27
\* ------------------------------------------------------------------------

\* C27: in every state after the grouping, week_load has an entry for exactly
\* the known weeks, every task lies in a known week once the changes recorded
\* so far are applied, and the entry of a week is the sum of the hours of the
\* tasks that then lie in it.
C27_LoadBookkeeping ==
    /\ DOMAIN week_load = DOMAIN week_info
    /\ pc # "start" =>
         \A i \in DOMAIN tasks : StrfYW(AppliedStart(i)) \in DOMAIN week_info
    /\ \A w \in DOMAIN week_info :
         week_load[w] = AppliedLoad(week_info[w].week_start)

\* One week has received two tasks.
C27_Witness ==
    /\ Done
    /\ \E k \in DOMAIN changes : \E m \in DOMAIN changes :
         /\ k # m
         /\ changes[k].to_week = changes[m].to_week
         /\ week_load[changes[k].to_week]
              = get_hours(tasks[changes[k].task_id])
                  + get_hours(tasks[changes[m].task_id])

\* ------------------------------------------------------------------------
\* C28
\* ------------------------------------------------------------------------

\* The texts of the recommendations, in order.
RecommendationTexts == [r \in DOMAIN recommendations |-> recommendations[r].text]

\* The known weeks, not typed overdue, whose load exceeds their capacity.
Overloaded ==
    {w \in DOMAIN week_info :
        /\ week_info[w].type # "overdue"
        /\ week_load[w] > get_capacity(week_info, w)}

\* C28: the plan for a non-empty snapshot lists the overloaded weeks; it
\* recommends "Great job managing your time!" alone, with the message "Your
\* workload is already balanced!", when it has no change and no week is
\* overloaded; "Apply changes to optimize your schedule" alone when it has
\* changes and no week is overloaded; and the two notes on unmovable tasks
\* and on weekly hours when a week is overloaded.  The number of changes is
\* the sum of the overdue pushes, the other pushes and the pulls, the first
\* and the last being the counts the summary gives.
C28_Recommendations ==
    (Done /\ tasks # <<>>) =>
        /\ FlaggedWeeks = Overloaded
        /\ (changes = <<>> /\ Overloaded = {}) =>
              /\ RecommendationTexts = <<"Great job managing your time!">>
              /\ message = [fixed |-> "Your workload is already balanced!",
                            parts |-> <<>>]
        /\ (changes # <<>> /\ Overloaded = {}) =>
              RecommendationTexts = <<"Apply changes to optimize your schedule">>
        /\ Overloaded # {} =>
              /\ RecommendationTexts
                   = <<"Some high-priority tasks can't be moved",
                       "Consider increasing weekly hours above {h}h">>
              /\ recommendations[2].hours = <<future_week_hours>>
        /\ overdue_count
             = Cardinality({k \in DOMAIN changes : changes[k].is_overdue})
        /\ pulled_forward_count
             = Cardinality({k \in DOMAIN changes : changes[k].direction = "pull"})
        /\ Len(changes)
             = overdue_count + pulled_forward_count
                 + Cardinality({k \in Pushes : ~ changes[k].is_overdue})

\* A plan with an overdue push, another push and an overloaded week.
C28_Witness ==
    /\ Done
    /\ overloaded_weeks # <<>>
    /\ overdue_count = 1
    /\ PushedCount(changes) = 1
    /\ Len(recommendations) = 2

\* ------------------------------------------------------------------------
\* calculate_rebalance run to its end (SpecFair)
\* ------------------------------------------------------------------------

\* Tasks of one priority that are NEW or IN_PROGRESS, on a future-week budget
\* of 2 hours.
FairAttrs ==
    [week_start : WeekStarts, target_count : TargetCounts,
     status : {"NEW", "IN_PROGRESS"}, priority : {1}]

InitFair ==
    /\ goal_deadline \in GoalDeadlines
    /\ \E n \in 0..MaxTasks : \E q \in [1..n -> FairAttrs] :
         /\ FetchOrdered(q)
         /\ tasks = SnapshotOf(q, goal_deadline)
    /\ today \in Todays
    /\ current_week_hours \in CurrentWeekHoursValues
    /\ future_week_hours = 2
    /\ pc = "start"
    /\ sorted_weeks = <<>>
    /\ week_info = <<>>
    /\ week_load = <<>>
    /\ changes = <<>>
    /\ overdue_count = 0
    /\ pulled_forward_count = 0
    /\ widx = 1
    /\ movable = <<>>
    /\ excess = 0
    /\ pull_branch = "none"
    /\ spare_capacity = 0
    /\ future_weeks = <<>>
    /\ fidx = 1
    /\ pullable = <<>>
    /\ overloaded_weeks = <<>>
    /\ message = <<>>
    /\ recommendations = <<>>
    /\ db = <<>>
    /\ user_id = "u1"
    /\ request = <<>>
    /\ aidx = 1
    /\ applied = <<>>
    /\ errors = <<>>
    /\ apply_result = <<>>
    /\ calls = <<>>
    /\ served = 0
    /\ goals = <<>>
    /\ pending = {}

\* The call is one sequential function: whichever statement is next is
\* executed.
SpecFair == InitFair /\ [][Next]_vars /\ WF_vars(Next)

\* ------------------------------------------------------------------------
\* C29
\* ------------------------------------------------------------------------

\* The labels of the weeks the snapshot has tasks in.
SnapshotWeeks == {tasks[i].year_week : i \in DOMAIN tasks}

\* The positions of sorted_weeks that hold a synthesized week.
Synthesized == {p \in DOMAIN sorted_weeks : sorted_weeks[p] \notin SnapshotWeeks}

\* C29: calculate_rebalance reaches its return; sorted_weeks never lists a
\* week twice and the push loop never goes back in it, moving on when it
\* leaves a week; the week whose tasks are being pushed, and the source of
\* every change, is a week of the snapshot; and there are at most as many
\* synthesized weeks as recorded pushes.
C29_Terminates ==
    /\ <>Done
    /\ [](/\ \A p \in DOMAIN sorted_weeks : \A q \in DOMAIN sorted_weeks :
                sorted_weeks[p] = sorted_weeks[q] => p = q
          /\ pc = "pushtask" => sorted_weeks[widx] \in SnapshotWeeks
          /\ \A k \in DOMAIN changes : changes[k].from_week \in SnapshotWeeks
          /\ Cardinality(Synthesized) <= Cardinality(Pushes))
    /\ [][/\ widx' >= widx
          /\ (pc = "pushtask" /\ pc' # "pushtask") => widx' > widx]_vars

\* The push loop has run to its end over a list that grew by two synthesized
\* weeks while it was iterated.
C29_Witness ==
    /\ Done
    /\ Cardinality(Synthesized) = 2
    /\ widx = Len(sorted_weeks) + 1

\* ------------------------------------------------------------------------
\* Concurrent apply_rebalance calls of one user (SpecRace).  Each call runs
\* the loop of source lines 468-525; its SELECT and its UPDATE are two
\* statements, each executed by the database in one piece, and statements of
\* other calls may come in between.
\* ------------------------------------------------------------------------

\* Number of concurrent calls.
MaxCalls == 2

CallIds == 1..MaxCalls

\* The variables of the single-call specifications.
single_call_vars ==
    <<inputs, router_vars, pc, user_id, request, aidx, applied, errors, apply_result,
      sorted_weeks, week_info, week_load, changes, overdue_count,
      pulled_forward_count, widx, movable, excess, pull_branch,
      spare_capacity, future_weeks, fidx, pullable, overloaded_weeks,
      message, recommendations>>

\* Call c runs an iteration up to its SELECT.
CallSelect(c) ==
    /\ calls[c].stage = "select"
    /\ calls[c].aidx <= Len(calls[c].request)
    /\ \E select_ok \in BOOLEAN :
         LET out == SelectStep(db, user_id, calls[c].request[calls[c].aidx],
                               select_ok)
         IN  calls' = [calls EXCEPT
                 ![c].errors = @ \o out.errors,
                 ![c].stage = IF out.raised THEN "raised"
                              ELSE IF out.update THEN "update" ELSE "select",
                 ![c].aidx = IF out.raised \/ out.update THEN @
                             ELSE IF out.errors # <<>>
                             THEN AfterFailure(@, Len(calls[c].request))
                             ELSE @ + 1]
    /\ UNCHANGED <<db, single_call_vars>>

\* Call c runs its UPDATE and the rest of the iteration.
CallUpdate(c) ==
    /\ calls[c].stage = "update"
    /\ \E update_ok \in BOOLEAN :
         LET out == UpdateStep(db, calls[c].request[calls[c].aidx], update_ok)
         IN  /\ db' = out.db
             /\ calls' = [calls EXCEPT
                    ![c].applied = @ \o out.applied,
                    ![c].errors = @ \o out.errors,
                    ![c].stage = "select",
                    ![c].aidx = IF out.errors # <<>>
                                THEN AfterFailure(@, Len(calls[c].request))
                                ELSE @ + 1]
    /\ UNCHANGED single_call_vars

\* Call c returns its result.
CallReturn(c) ==
    /\ calls[c].stage = "select"
    /\ calls[c].aidx > Len(calls[c].request)
    /\ calls' = [calls EXCEPT
           ![c].stage = "returned",
           ![c].result = <<[success |-> Len(calls[c].errors) = 0,
                            applied |-> calls[c].applied,
                            errors |-> calls[c].errors,
                            total_applied |-> Len(calls[c].applied),
                            total_errors |-> Len(calls[c].errors)]>>]
    /\ UNCHANGED <<db, single_call_vars>>

\* The requests of a call: one move of task 1 or task 2 out of week 2024-52
\* to Monday 2025-01-06, Monday 2025-01-13 or Wednesday 2025-01-01.
RaceRequests ==
    {<<[action |-> "move", task_id |-> t, from_week |-> <<2024, 52>>,
        target_week_start |-> w]>> :
        t \in {1, 2}, w \in {<<2025, 1, 6>>, <<2025, 1, 13>>, <<2025, 1, 1>>}}

InitRace ==
    /\ db = InitialStore
    /\ user_id = "u1"
    /\ calls \in [CallIds -> [request : RaceRequests, aidx : {1},
                              stage : {"select"}, applied : {<<>>},
                              errors : {<<>>}, result : {<<>>}]]
    /\ pc = "race"
    /\ served = 0
    /\ goals = InitialGoals
    /\ pending = {}
    /\ request = <<>>
    /\ aidx = 1
    /\ applied = <<>>
    /\ errors = <<>>
    /\ apply_result = <<>>
    /\ tasks = <<>>
    /\ goal_deadline = <<>>
    /\ today = 14
    /\ current_week_hours = 4
    /\ future_week_hours = 4
    /\ sorted_weeks = <<>>
    /\ week_info = <<>>
    /\ week_load = <<>>
    /\ changes = <<>>
    /\ overdue_count = 0
    /\ pulled_forward_count = 0
    /\ widx = 1
    /\ movable = <<>>
    /\ excess = 0
    /\ pull_branch = "none"
    /\ spare_capacity = 0
    /\ future_weeks = <<>>
    /\ fidx = 1
    /\ pullable = <<>>
    /\ overloaded_weeks = <<>>
    /\ message = <<>>
    /\ recommendations = <<>>

NextRace ==
    \E c \in CallIds :
        \/ CallSelect(c)
        \/ CallUpdate(c)
        \/ CallReturn(c)

SpecRace == InitRace /\ [][NextRace]_vars

\* ------------------------------------------------------------------------
\* C30
\* ------------------------------------------------------------------------

\* The week columns of a row.
RowWeek(row) ==
    [week_start |-> row.week_start, week_end |-> row.week_end,
     year_week |-> row.year_week]

\* The week columns a change asks for.
ValuesOf(change) ==
    LET week_start == fromisoformat(change.target_week_start)
    IN  [week_start |-> week_start, week_end |-> week_start + 6,
         year_week |-> StrfYW(week_start)]

\* The changes on task t that some call reports as applied.
AppliedChanges(t) ==
    {calls[q[1]].request[q[2]] :
        q \in {r \in CallIds \X (1..MaxChanges) :
                 /\ r[2] \in DOMAIN calls[r[1]].request
                 /\ calls[r[1]].request[r[2]].task_id = t
                 /\ \E k \in DOMAIN calls[r[1]].applied :
                      /\ calls[r[1]].applied[k].task_id = t
                      /\ calls[r[1]].applied[k].to_week
                           = ValuesOf(calls[r[1]].request[r[2]]).year_week}}

AllReturned == \A c \in CallIds : calls[c].stage = "returned"

\* C30: under every interleaving of the calls, each row of the table has at
\* all times a week_end six days after its week_start and the label of its
\* week_start as year_week; an UPDATE that goes through sets the row to the
\* values of its change, whatever week the row is in and whatever from_week
\* the change names; and once all calls have returned, a row that some call
\* reports as moved holds the values of one of the changes applied to it,
\* while a row no call moved is the one the calls found.
C30_LastWriteWins ==
    /\ [](\A t \in DOMAIN db :
            /\ db[t].week_end = db[t].week_start + 6
            /\ db[t].year_week = StrfYW(db[t].week_start))
    /\ [](AllReturned =>
            \A t \in DOMAIN db :
                IF AppliedChanges(t) = {}
                THEN db[t] = InitialStore[t]
                ELSE \E ch \in AppliedChanges(t) : RowWeek(db[t]) = ValuesOf(ch))
    /\ [][\A c \in CallIds :
            (calls[c].stage = "update" /\ calls'[c].applied # calls[c].applied) =>
                LET ch == calls[c].request[calls[c].aidx]
                IN  /\ RowWeek(db'[ch.task_id]) = ValuesOf(ch)
                    /\ \A t \in DOMAIN db : t # ch.task_id => db'[t] = db[t]
         ]_vars

\* Two calls have moved task 1 to different weeks, both naming the week the
\* task was in to begin with, and both have returned.
C30_Witness ==
    /\ AllReturned
    /\ \E c \in CallIds : \E d \in CallIds :
         /\ calls[c].applied # <<>> /\ calls[d].applied # <<>>
         /\ calls[c].request[1].task_id = 1 /\ calls[d].request[1].task_id = 1
         /\ calls[c].request[1].from_week = calls[d].request[1].from_week
         /\ ValuesOf(calls[c].request[1]) # ValuesOf(calls[d].request[1])
         /\ RowWeek(db[1]) = ValuesOf(calls[c].request[1])
         /\ db[1].year_week # calls[c].request[1].from_week

====
